---------------------------- MODULE Spec2Model ----------------------------
(***************************************************************************)
(* Stranger-pairing signalling servers of the speakApp repository.         *)
(*                                                                         *)
(* The repository holds several variants of the same server.  Each one is  *)
(* modelled as its own state machine over the variables below:             *)
(*                                                                         *)
(*   MP  mode-partitioned server      src/unnamed/part_001 lines 1-213     *)
(*   IX  status-tracking server       src/index.js                         *)
(*   SQ  single-queue timer server    src/unnamed/part_002 lines 1-196     *)
(*   P0  status-tracking server       src/unnamed/part_000                 *)
(*                                                                         *)
(* A server is single threaded: one event (connection, message, close,     *)
(* error, timer) is handled to completion before the next, so every        *)
(* handler is one atomic action.  The functions of the source mutate       *)
(* global registries and call each other; they are operators from a        *)
(* record of the registries to the record after the call.                  *)
(***************************************************************************)
EXTENDS Naturals, Integers, Sequences, FiniteSets, TLC

VARIABLES
    readyState,         \* socket -> readyState of the ws library
    pendingUsers,       \* MP: [voice, video -> queue of clients]; SQ: queue of sockets
    pairedConnections,  \* MP, SQ: Map socket -> partner
    videoTimers,        \* MP, SQ: Map socket -> timer
    waitingClients,     \* IX, P0: array of {ws, status}
    pairs,              \* IX, P0: Map socket -> partner
    pairTimers,         \* Map socket -> timer (status-tracking timer server)
    timeouts,           \* the pending setTimeout callbacks
    sent,               \* the sendMessageToClient calls of the last handler
    event,              \* the last event handled
    lastMode,           \* history: the mode of each socket's latest CONNECT
    lastRequest         \* history: the latest CONNECT or DISCONNECT frame of each socket

vars == <<readyState, pendingUsers, pairedConnections, videoTimers,
          waitingClients, pairs, pairTimers, timeouts, sent, event, lastMode,
          lastRequest>>

(***************************************************************************)
(* Bounds                                                                  *)
(***************************************************************************)
\* The number of sockets that ever connect.
NSock == 3

Sock == 1 .. NSock

\* The values of data.mode in a CONNECT frame: the two modes, and anything else
\* (absent or invalid).
ModeArgs == {"voice", "video", "other"}

\* The texts a client writes as the signal member of a SIGNAL frame: a
\* compact object, a number beyond the range of a double, and 5000 nested
\* arrays.
Signals == {"offer", "1e400", "deep"}

\* JSON.parse of the signal member: 1e400 is read as Infinity; the other
\* texts are read as the values they denote.
JsonParse(text) == IF text = "1e400" THEN "Infinity" ELSE text

\* JSON.stringify overflows the call stack on the nested arrays.
StringifyThrows(value) == value = "deep"

\* JSON.stringify of a payload: Infinity is written as null; the other
\* values, and the fixed messages of the server, are written as they are.
JsonStringify(value) == IF value = "Infinity" THEN "null" ELSE value

(***************************************************************************)
(* JavaScript values and built-ins                                         *)
(***************************************************************************)
\* What Map.get answers when the key is absent (sockets are 1 .. NSock).
Undefined == 0

\* Map.prototype.has / get / set / delete; a Map is a function on its keys.
MapHas(m, k) == k \in DOMAIN m

MapGet(m, k) == IF k \in DOMAIN m THEN m[k] ELSE Undefined

MapSet(m, k, v) == [x \in (DOMAIN m) \cup {k} |-> IF x = k THEN v ELSE m[x]]

MapDelete(m, k) == [x \in (DOMAIN m) \ {k} |-> m[x]]

EmptyMap == [x \in {} |-> Undefined]

\* Array.prototype.findIndex on the ws field: 1-based, 0 for JavaScript's -1.
RECURSIVE FindIndexFrom(_, _, _)
FindIndexFrom(arr, ws, i) ==
    IF i > Len(arr) THEN 0
    ELSE IF arr[i].ws = ws THEN i
    ELSE FindIndexFrom(arr, ws, i + 1)

FindIndex(arr, ws) == FindIndexFrom(arr, ws, 1)

\* Array.prototype.splice(index, 1).
Splice(arr, i) == SubSeq(arr, 1, i - 1) \o SubSeq(arr, i + 1, Len(arr))

(***************************************************************************)
(* Events and frames                                                       *)
(***************************************************************************)
\* An inbound frame: text that JSON.parse rejects, an object with a type, or
\* the text null.  "CHAT" stands for every type the switch has no case for.
NoFrame == [valid |-> FALSE, type |-> "none", mode |-> "other", signal |-> "none"]

\* The text null: JSON.parse accepts it and returns null, a value that has no
\* property to read.
NullFrame == [valid |-> TRUE, type |-> "null", mode |-> "other", signal |-> "none"]

Frames ==
    {NullFrame} \cup
    {[valid |-> FALSE, type |-> "garbage", mode |-> "other", signal |-> "none"]}
    \cup {[valid |-> TRUE, type |-> "CONNECT", mode |-> m, signal |-> "none"] :
              m \in ModeArgs}
    \cup {[valid |-> TRUE, type |-> t, mode |-> "other", signal |-> "none"] :
              t \in {"DISCONNECT", "CHAT"}}
    \cup {[valid |-> TRUE, type |-> "SIGNAL", mode |-> "other", signal |-> p] :
              p \in Signals}

Ev(kind, ws, frame, ws2) == [kind |-> kind, ws |-> ws, frame |-> frame, ws2 |-> ws2]

\* Between two events the event loop is idle.
Idle == Ev("idle", Undefined, NoFrame, Undefined)

\* switch (data.type) reads a property of data: on null it throws a
\* TypeError.
Throws(frame) == frame = NullFrame

\* One call of sendMessageToClient: the target, the message, and whether the
\* target's readyState let ws.send run.
Msg(to, type, payload, delivered) ==
    [to |-> to, type |-> type, payload |-> payload, delivered |-> delivered]

(***************************************************************************)
(* sendMessageToClient: the same in every variant                          *)
(***************************************************************************)
\* Mutant: ws.send is called whatever the readyState.
sendMessageToClient_unguarded(st, ws, type, payload) ==
    [st EXCEPT !.sent = Append(@, [to |-> ws, type |-> type,
                                   payload |-> JsonStringify(payload),
                                   delivered |-> ~StringifyThrows(payload)])]

\* MP and SQ: ws.send(JSON.stringify(...)) stands in a try; when
\* JSON.stringify throws, the catch logs it and nothing is sent.
sendMessageToClient(st, ws, type, payload) ==
    [st EXCEPT !.sent =
        Append(@, Msg(ws, type, JsonStringify(payload),
                      st.readyState[ws] = "OPEN" /\ ~StringifyThrows(payload)))]

\* IX, P0, ST and AP: no try; when JSON.stringify throws, the exception
\* leaves sendMessageToClient and the listener that called it.
sendMessageToClientIX(st, ws, type, payload) ==
    IF st.thrown THEN st
    ELSE IF st.readyState[ws] = "OPEN" /\ StringifyThrows(payload)
    THEN [st EXCEPT !.thrown = TRUE]
    ELSE [st EXCEPT !.sent =
             Append(@, Msg(ws, type, JsonStringify(payload),
                           st.readyState[ws] = "OPEN"))]

(***************************************************************************)
(* MP: the mode-partitioned server, src/unnamed/part_001 lines 1-213       *)
(***************************************************************************)
\* The registries of the running server, as the handlers find them.
RegMP(rs) ==
    [readyState |-> rs, pendingUsers |-> pendingUsers,
     pairedConnections |-> pairedConnections, videoTimers |-> videoTimers,
     timeouts |-> timeouts, sent |-> << >>]

\* A client object { ws, mode }.
ClientMP(ws, mode) == [ws |-> ws, mode |-> mode]

\* const newMode = data.mode === 'video' ? 'video' : 'voice'
NewMode(arg) == IF arg = "video" THEN "video" ELSE "voice"

\* Mutant: the callback sends but leaves the timer references in place.
enableVideoModeForPairMP_keepsEntries(st, ws1, ws2) ==
    IF MapGet(st.pairedConnections, ws1) = ws2
    THEN sendMessageToClient(
             sendMessageToClient(st, ws1, "ENABLE_VIDEO", "enabled"),
             ws2, "ENABLE_VIDEO", "enabled")
    ELSE st

\* Mutant: the callback clears the timer references but sends nothing.
enableVideoModeForPairMP_silent(st, ws1, ws2) ==
    IF MapHas(st.videoTimers, ws1)
    THEN [st EXCEPT !.timeouts = @ \ {st.videoTimers[ws1]},
                    !.videoTimers = MapDelete(MapDelete(@, ws1), ws2)]
    ELSE st

\* A timer is named by the two sockets its callback closes over.
enableVideoModeForPairMP(st, ws1, ws2) ==
    LET s1 == IF MapGet(st.pairedConnections, ws1) = ws2
              THEN sendMessageToClient(
                       sendMessageToClient(st, ws1, "ENABLE_VIDEO", "enabled"),
                       ws2, "ENABLE_VIDEO", "enabled")
              ELSE st
    IN  IF MapHas(s1.videoTimers, ws1)
        THEN [s1 EXCEPT !.timeouts = @ \ {s1.videoTimers[ws1]},
                        !.videoTimers = MapDelete(MapDelete(@, ws1), ws2)]
        ELSE s1

\* pairedConnections.set(ws, partner); pairedConnections.set(partner, ws)
linkMP(pc, ws, partner) == MapSet(MapSet(pc, ws, partner), partner, ws)

\* Mutant: with no eligible partner the client is pushed onto the queue as
\* it stands, stale entries included.
attemptToPairMP_unfilteredPush(st, client) ==
    LET ws == client.ws
        mode == client.mode
        cleaned == SelectSeq(st.pendingUsers[mode],
                       LAMBDA c : st.readyState[c.ws] = "OPEN"
                                  /\ ~MapHas(st.pairedConnections, c.ws))
    IN  IF Len(cleaned) > 0
        THEN LET partner == Head(cleaned).ws
                 s1 == [st EXCEPT
                          !.pendingUsers[mode] = Tail(cleaned),
                          !.pairedConnections = linkMP(@, ws, partner)]
                 s2 == sendMessageToClient(s1, ws, "PAIR_FOUND", "initiator:true")
                 s3 == sendMessageToClient(s2, partner, "PAIR_FOUND", "initiator:false")
                 timer == <<ws, partner>>
             IN  IF mode = "voice"
                 THEN [s3 EXCEPT
                          !.timeouts = @ \cup {timer},
                          !.videoTimers = MapSet(MapSet(@, ws, timer), partner, timer)]
                 ELSE s3
        ELSE LET s1 == [st EXCEPT !.pendingUsers[mode] = Append(@, client)]
             IN  sendMessageToClient(s1, ws, "STATUS", "searching")

attemptToPairMP(st, client) ==
    LET ws == client.ws
        mode == client.mode
        cleaned == SelectSeq(st.pendingUsers[mode],
                       LAMBDA c : st.readyState[c.ws] = "OPEN"
                                  /\ ~MapHas(st.pairedConnections, c.ws))
    IN  IF Len(cleaned) > 0
        THEN LET partner == Head(cleaned).ws
                 s1 == [st EXCEPT
                          !.pendingUsers[mode] = Tail(cleaned),
                          !.pairedConnections = linkMP(@, ws, partner)]
                 s2 == sendMessageToClient(s1, ws, "PAIR_FOUND", "initiator:true")
                 s3 == sendMessageToClient(s2, partner, "PAIR_FOUND", "initiator:false")
                 timer == <<ws, partner>>
             IN  IF mode = "voice"
                 THEN [s3 EXCEPT
                          !.timeouts = @ \cup {timer},
                          !.videoTimers = MapSet(MapSet(@, ws, timer), partner, timer)]
                 ELSE s3
        ELSE LET s1 == [st EXCEPT !.pendingUsers[mode] =
                           IF FindIndex(cleaned, ws) = 0
                           THEN Append(cleaned, client) ELSE cleaned]
             IN  sendMessageToClient(s1, ws, "STATUS", "searching")

\* Mutant: only the entry of the disconnecting socket is deleted.
unlinkMP_ownEntryOnly(pc, ws, partner) == MapDelete(pc, ws)

\* Mutant: disconnectPair leaves both entries of the pair in place.
unlinkMP_kept(pc, ws, partner) == pc

\* pairedConnections.delete(ws); pairedConnections.delete(partner)
unlinkMP(pc, ws, partner) == MapDelete(MapDelete(pc, ws), partner)

\* Mutant: the pending queues are not cleaned.
forgetPendingMP_skipped(pending, ws) == pending

\* for (const mode of ['voice', 'video']) pendingUsers[mode] = ...filter(c => c.ws !== ws)
forgetPendingMP(pending, ws) ==
    [voice |-> SelectSeq(pending.voice, LAMBDA c : c.ws # ws),
     video |-> SelectSeq(pending.video, LAMBDA c : c.ws # ws)]

\* The mode in which disconnectPair requeues a partner.
requeueModeMP(partner) == "voice"

disconnectPairMP(st, ws, shouldRequeuePartner) ==
    LET partner == MapGet(st.pairedConnections, ws)
        \* 1. timer cleanup
        s1 == IF MapHas(st.videoTimers, ws)
              THEN [st EXCEPT
                      !.timeouts = @ \ {st.videoTimers[ws]},
                      !.videoTimers =
                          IF partner # Undefined
                          THEN MapDelete(MapDelete(@, ws), partner)
                          ELSE MapDelete(@, ws)]
              ELSE st
        \* 2. partner cleanup
        s2 == IF partner # Undefined
              THEN LET a == sendMessageToClient(s1, partner, "DISCONNECTED", "partner")
                       b == [a EXCEPT !.pairedConnections = unlinkMP(@, ws, partner)]
                   IN  IF shouldRequeuePartner
                       THEN attemptToPairMP(b, ClientMP(partner, requeueModeMP(partner)))
                       ELSE b
              ELSE s1
        \* 3. cleanup from the pending queues
    IN  [s2 EXCEPT !.pendingUsers = forgetPendingMP(@, ws)]

\* wss.on('connection'): the socket is open and greeted.
connectionMP(st, ws) == sendMessageToClient(st, ws, "STATUS", "press connect")

\* Mutant: an unpaired SIGNAL is answered but nothing is torn down.
signalMP_noCleanup(st, ws, signal) ==
    LET partner == MapGet(st.pairedConnections, ws)
    IN  IF partner # Undefined
        THEN sendMessageToClient(st, partner, "SIGNAL", signal)
        ELSE sendMessageToClient(st, ws, "STATUS", "not paired")

\* case 'SIGNAL'
signalMP(st, ws, signal) ==
    LET partner == MapGet(st.pairedConnections, ws)
    IN  IF partner # Undefined
        THEN sendMessageToClient(st, partner, "SIGNAL", signal)
        ELSE sendMessageToClient(disconnectPairMP(st, ws, FALSE),
                                 ws, "STATUS", "not paired")

\* Mutant: a manual disconnect requeues the partner.
disconnectMP_requeue(st, ws) ==
    sendMessageToClient(disconnectPairMP(st, ws, TRUE), ws, "STATUS", "disconnected")

\* case 'DISCONNECT'
disconnectMP(st, ws) ==
    sendMessageToClient(disconnectPairMP(st, ws, FALSE), ws, "STATUS", "disconnected")

\* Mutant: a new CONNECT requeues the partner left behind.
connectMP_requeue(st, ws, modeArg) ==
    attemptToPairMP(disconnectPairMP(st, ws, TRUE), ClientMP(ws, NewMode(modeArg)))

\* case 'CONNECT'
connectMP(st, ws, modeArg) ==
    attemptToPairMP(disconnectPairMP(st, ws, FALSE), ClientMP(ws, NewMode(modeArg)))

\* ws.on('message')
messageMP(st, ws, frame) ==
    IF ~frame.valid THEN st
    ELSE CASE frame.type = "SIGNAL" -> signalMP(st, ws, JsonParse(frame.signal))
           [] frame.type = "DISCONNECT" -> disconnectMP(st, ws)
           [] frame.type = "CONNECT" -> connectMP(st, ws, frame.mode)
           [] OTHER -> st

\* Mutant: the close handler does nothing.
closeMP_noCleanup(st, ws) == st

\* ws.on('close') and ws.on('error')
closeMP(st, ws) == disconnectPairMP(st, ws, TRUE)

errorMP(st, ws) == disconnectPairMP(st, ws, TRUE)

\* The registries after a handler, written back.
CommitMP(st) ==
    /\ readyState' = st.readyState
    /\ pendingUsers' = st.pendingUsers
    /\ pairedConnections' = st.pairedConnections
    /\ videoTimers' = st.videoTimers
    /\ timeouts' = st.timeouts
    /\ sent' = st.sent
    /\ UNCHANGED <<waitingClients, pairs, pairTimers, lastRequest>>

InitMP ==
    /\ readyState = [s \in Sock |-> "CONNECTING"]
    /\ pendingUsers = [voice |-> << >>, video |-> << >>]
    /\ pairedConnections = EmptyMap
    /\ videoTimers = EmptyMap
    /\ waitingClients = << >>
    /\ pairs = EmptyMap
    /\ pairTimers = EmptyMap
    /\ timeouts = {}
    /\ sent = << >>
    /\ event = Idle
    /\ lastMode = [s \in Sock |-> "none"]
    /\ lastRequest = [s \in Sock |-> "none"]

\* A client connects: the transport hands the server a new open socket.
\* Sockets are numbered in the order in which they connect.
ConnectionMP(s) ==
    /\ event = Idle
    /\ readyState[s] = "CONNECTING"
    /\ \A r \in Sock : r < s => readyState[r] # "CONNECTING"
    /\ CommitMP(connectionMP(RegMP([readyState EXCEPT ![s] = "OPEN"]), s))
    /\ event' = Ev("connection", s, NoFrame, Undefined)
    /\ UNCHANGED lastMode

\* The 'message' listener throws while it handles the frame: nothing has
\* been sent and no registry has been written when the exception leaves the
\* listener, and nothing in the server catches it.
ListenerThrows(s, frame) ==
    /\ event' = Ev("uncaught", s, frame, Undefined)
    /\ UNCHANGED <<readyState, pendingUsers, pairedConnections, videoTimers,
                   waitingClients, pairs, pairTimers, timeouts, sent,
                   lastMode, lastRequest>>

\* An exception that nothing catches ends the process: its registries and
\* pending timeouts are gone and every connection it held is closed.  No
\* event is handled after that.
ProcessExit(noPending) ==
    /\ event.kind = "uncaught"
    /\ event' = Ev("exit", event.ws, event.frame, Undefined)
    /\ readyState' = [s \in Sock |->
                         IF readyState[s] = "CONNECTING" THEN "CONNECTING" ELSE "CLOSED"]
    /\ pendingUsers' = noPending
    /\ pairedConnections' = EmptyMap
    /\ videoTimers' = EmptyMap
    /\ waitingClients' = << >>
    /\ pairs' = EmptyMap
    /\ pairTimers' = EmptyMap
    /\ timeouts' = {}
    /\ sent' = << >>
    /\ lastMode' = [s \in Sock |-> "none"]
    /\ UNCHANGED lastRequest

\* The process of MP ends.
ExitMP == ProcessExit([voice |-> << >>, video |-> << >>])

\* The process of a server whose queue is one array ends.
ExitIX == ProcessExit(<< >>)

\* An open socket delivers a frame.
MessageMP(s) ==
    /\ event = Idle
    /\ readyState[s] = "OPEN"
    /\ \E frame \in Frames :
          IF Throws(frame)
          THEN ListenerThrows(s, frame)
          ELSE /\ CommitMP(messageMP(RegMP(readyState), s, frame))
               /\ event' = Ev("message", s, frame, Undefined)
               /\ lastMode' = IF frame.valid /\ frame.type = "CONNECT"
                              THEN [lastMode EXCEPT ![s] = NewMode(frame.mode)]
                              ELSE lastMode

\* The transport of a socket starts to go down: readyState leaves OPEN before
\* any handler of the server runs.
TransportDown(s) ==
    /\ event = Idle
    /\ readyState[s] = "OPEN"
    /\ readyState' = [readyState EXCEPT ![s] = "CLOSING"]
    /\ UNCHANGED <<pendingUsers, pairedConnections, videoTimers, waitingClients,
                   pairs, pairTimers, timeouts, sent, event, lastMode, lastRequest>>

\* The handler has returned: the event loop is idle again and takes the next
\* event.
Settle ==
    /\ event # Idle
    /\ event.kind \notin {"uncaught", "exit"}
    /\ event' = Idle
    /\ sent' = << >>
    /\ UNCHANGED <<readyState, pendingUsers, pairedConnections, videoTimers,
                   waitingClients, pairs, pairTimers, timeouts, lastMode, lastRequest>>

\* The 'error' event: the ws library has left OPEN when it emits it.
ErrorMP(s) ==
    /\ event = Idle
    /\ readyState[s] \in {"OPEN", "CLOSING"}
    /\ CommitMP(errorMP(RegMP([readyState EXCEPT ![s] = "CLOSING"]), s))
    /\ event' = Ev("error", s, NoFrame, Undefined)
    /\ UNCHANGED lastMode

\* The 'close' event: the last event of a socket, readyState is CLOSED.
CloseMP(s) ==
    /\ event = Idle
    /\ readyState[s] \in {"OPEN", "CLOSING"}
    /\ CommitMP(closeMP(RegMP([readyState EXCEPT ![s] = "CLOSED"]), s))
    /\ event' = Ev("close", s, NoFrame, Undefined)
    /\ lastMode' = [lastMode EXCEPT ![s] = "none"]

\* A pending timeout elapses and its callback runs.
TimerMP(t) ==
    /\ event = Idle
    /\ t \in timeouts
    /\ CommitMP(enableVideoModeForPairMP(
                   [RegMP(readyState) EXCEPT !.timeouts = @ \ {t}], t[1], t[2]))
    /\ event' = Ev("timer", t[1], NoFrame, t[2])
    /\ UNCHANGED lastMode

NextMP ==
    \/ \E s \in Sock : ConnectionMP(s)
    \/ \E s \in Sock : MessageMP(s)
    \/ \E s \in Sock : TransportDown(s)
    \/ \E s \in Sock : ErrorMP(s)
    \/ \E s \in Sock : CloseMP(s)
    \/ \E t \in Sock \X Sock : TimerMP(t)
    \/ Settle
    \/ ExitMP

SpecMP == InitMP /\ [][NextMP]_vars

(***************************************************************************)
(* MP: properties                                                          *)
(***************************************************************************)
\* Socket s has an entry in the queue of mode m.
QueuedMP(s, m) ==
    /\ m \in {"voice", "video"}
    /\ \E i \in 1 .. Len(pendingUsers[m]) : pendingUsers[m][i].ws = s

WaitingMP(s) == QueuedMP(s, "voice") \/ QueuedMP(s, "video")

PairedMP(s) == MapHas(pairedConnections, s)

\* The positions in sent of the messages of a type addressed to s.
SentTo(s, type) == {i \in 1 .. Len(sent) : sent[i].to = s /\ sent[i].type = type}

\* The event handled is a frame of this type from socket s.
IsFrame(e, type, s) ==
    e.kind = "message" /\ e.ws = s /\ e.frame.valid /\ e.frame.type = type

\* No pending timeout and no videoTimers entry involves socket s.
NoTimerMP(s) ==
    /\ ~MapHas(videoTimers, s)
    /\ \A t \in timeouts : t[1] # s /\ t[2] # s

(* C1: in MP no socket is at once in a pendingUsers queue and in
   pairedConnections, and no socket is in both the voice and the video
   queue; so every socket is in exactly one of: neither, waiting, paired. *)
C1_ExclusiveMembershipMP ==
    \A s \in Sock :
        /\ ~(WaitingMP(s) /\ PairedMP(s))
        /\ ~(QueuedMP(s, "voice") /\ QueuedMP(s, "video"))

\* One socket waits while two others are paired, after a socket that was
\* waiting has sent a second CONNECT.
C1_Witness ==
    \E a, b, c \in Sock :
        /\ WaitingMP(a) /\ ~PairedMP(a)
        /\ b # c /\ MapGet(pairedConnections, b) = c /\ ~WaitingMP(b) /\ ~WaitingMP(c)
        /\ IsFrame(event, "CONNECT", a)

(* C2: in MP the pair registry is symmetric in every reachable state:
   pairedConnections.get(A) = B if and only if pairedConnections.get(B) = A. *)
C2_SymmetricPairsMP ==
    \A a, b \in Sock :
        (MapGet(pairedConnections, a) = b) <=> (MapGet(pairedConnections, b) = a)

\* A pair has been dissolved by one side while another pair stands.
C2_Witness ==
    \E a, b \in Sock :
        /\ a # b /\ MapGet(pairedConnections, a) = b
        /\ event.kind \in {"close", "error"}
        /\ SentTo(a, "DISCONNECTED") # {}

(* C6: in MP, when X, paired with Y, sends DISCONNECT, Y is sent exactly one
   DISCONNECTED, the pair and its timer are removed, X receives the
   confirmation STATUS, and Y is not requeued; a socket that is in no queue
   and in no pair stays so until it sends CONNECT itself. *)
C6_DisconnectStepMP ==
    \A x, y \in Sock :
        (IsFrame(event', "DISCONNECT", x) /\ MapGet(pairedConnections, x) = y) =>
            /\ Cardinality(SentTo(y, "DISCONNECTED")') = 1
            /\ ~PairedMP(x)' /\ ~PairedMP(y)'
            /\ NoTimerMP(x)' /\ NoTimerMP(y)'
            /\ \E i \in SentTo(x, "STATUS")' :
                   sent'[i].payload = "disconnected" /\ sent'[i].delivered
            /\ ~WaitingMP(y)'

C6_StaysOutMP ==
    \A y \in Sock :
        (~WaitingMP(y) /\ ~PairedMP(y) /\ ~IsFrame(event', "CONNECT", y)) =>
            (~WaitingMP(y)' /\ ~PairedMP(y)')

C6_ManualDisconnectMP == [][C6_DisconnectStepMP /\ C6_StaysOutMP]_vars

\* X has sent DISCONNECT while paired in voice mode: its partner was notified.
C6_Witness ==
    \E x, y \in Sock :
        /\ IsFrame(event, "DISCONNECT", x)
        /\ x # y /\ SentTo(y, "DISCONNECTED") # {}
        /\ lastMode[x] = "voice"

(* C9: in MP, when the transport of X closes or errors while X is paired
   with Y, Y is re-matched or enqueued in the queue of the mode Y requested
   in its own most recent CONNECT, never in a fixed default mode. *)
C9_RequeueInOwnModeMP ==
    [][\A x, y \in Sock :
          (event'.kind \in {"close", "error"} /\ event'.ws = x
             /\ MapGet(pairedConnections, x) = y) =>
              \/ QueuedMP(y, lastMode[y])'
              \/ PairedMP(y)' /\ QueuedMP(pairedConnections'[y], lastMode[y])]_vars

(* C10 as claimed: in MP, when X, paired with Y, sends CONNECT, the pair is
   unlinked, its timer is cancelled, and Y is requeued: after the step Y
   waits in the queue of its own mode or is paired with another client. *)
C10_ConnectRequeuesPartnerMP ==
    [][\A x, y \in Sock :
          (IsFrame(event', "CONNECT", x) /\ MapGet(pairedConnections, x) = y) =>
              /\ MapGet(pairedConnections', x) # y
              /\ MapGet(pairedConnections', y) # x
              /\ \A t \in timeouts' : t \notin {<<x, y>>, <<y, x>>}
              /\ \/ QueuedMP(y, lastMode[y])'
                 \/ PairedMP(y)' /\ pairedConnections'[y] # x]_vars

(* C10 as amended: in MP, when X, paired with Y, sends CONNECT, the pair is
   unlinked, its timer is cancelled and Y is notified, but Y is not
   requeued: after the step Y is in no pendingUsers queue and in no pair. *)
C10_ConnectDropsPartnerMP ==
    [][\A x, y \in Sock :
          (IsFrame(event', "CONNECT", x) /\ MapGet(pairedConnections, x) = y) =>
              /\ MapGet(pairedConnections', x) # y
              /\ ~PairedMP(y)'
              /\ NoTimerMP(y)'
              /\ \A t \in timeouts' : t \notin {<<x, y>>, <<y, x>>}
              /\ Cardinality(SentTo(y, "DISCONNECTED")') = 1
              /\ ~WaitingMP(y)']_vars

\* X has sent CONNECT while paired: its partner was notified, and X is
\* paired again with a socket that was waiting.
C10_Witness ==
    \E x, y \in Sock :
        /\ IsFrame(event, "CONNECT", x)
        /\ x # y /\ SentTo(y, "DISCONNECTED") # {}
        /\ PairedMP(x)


(***************************************************************************)
(* IX: the status-tracking server of src/index.js                          *)
(***************************************************************************)
RegIX(rs) ==
    [readyState |-> rs, waitingClients |-> waitingClients, pairs |-> pairs,
     sent |-> << >>, thrown |-> FALSE]

\* A client object { ws, status }.
ClientIX(ws, status) == [ws |-> ws, status |-> status]

\* Array.prototype.find(c => c.ws === ws), then clientObj.status = status.
SetStatus(arr, i, status) == [arr EXCEPT ![i].status = status]

attemptToPairIX(st, ws) ==
    LET validWaitingClients ==
            SelectSeq(st.waitingClients,
                LAMBDA c : st.readyState[c.ws] = "OPEN"
                           /\ ~MapHas(st.pairs, c.ws) /\ c.status = "WAITING")
    IN  IF Len(validWaitingClients) > 0
        THEN LET partner == Head(validWaitingClients).ws
                 s1 == [st EXCEPT
                          !.waitingClients = Tail(validWaitingClients),
                          !.pairs = MapSet(MapSet(@, ws, partner), partner, ws)]
                 s2 == sendMessageToClientIX(s1, ws, "PAIR_FOUND", "initiator:true")
             IN  sendMessageToClientIX(s2, partner, "PAIR_FOUND", "initiator:false")
        ELSE sendMessageToClientIX(
                 [st EXCEPT !.waitingClients =
                     Append(validWaitingClients, ClientIX(ws, "WAITING"))],
                 ws, "STATUS", "waiting")

disconnectPairIX(st, ws, shouldRequeuePartner) ==
    LET partner == MapGet(st.pairs, ws)
        s1 == IF partner # Undefined
              THEN LET a == sendMessageToClientIX(st, partner, "DISCONNECTED", "partner")
                       b == [a EXCEPT !.pairs = MapDelete(MapDelete(@, ws), partner)]
                       partnerIndex == FindIndex(b.waitingClients, partner)
                   IN  IF shouldRequeuePartner
                       THEN attemptToPairIX(b, partner)
                       ELSE IF partnerIndex # 0
                            THEN [b EXCEPT !.waitingClients =
                                     SetStatus(@, partnerIndex, "DISCONNECTED")]
                            ELSE b
              ELSE st
        index == FindIndex(s1.waitingClients, ws)
    IN  IF index # 0
        THEN [s1 EXCEPT !.waitingClients = Splice(@, index)]
        ELSE s1

cleanupClientIX(st, ws) ==
    LET index == FindIndex(st.waitingClients, ws)
        s1 == IF index # 0
              THEN [st EXCEPT !.waitingClients = Splice(@, index)]
              ELSE st
    IN  disconnectPairIX(s1, ws, TRUE)

\* wss.on('connection')
connectionIX(st, ws) ==
    LET s1 == sendMessageToClientIX(st, ws, "STATUS", "press connect")
    IN  [s1 EXCEPT !.waitingClients = Append(@, ClientIX(ws, "DISCONNECTED"))]

\* case 'SIGNAL'
signalIX(st, ws, signal) ==
    LET partner == MapGet(st.pairs, ws)
    IN  IF partner # Undefined
        THEN sendMessageToClientIX(st, partner, "SIGNAL", signal)
        ELSE sendMessageToClientIX(st, ws, "STATUS", "not paired")

\* case 'DISCONNECT'
disconnectIX(st, ws) ==
    LET s1 == disconnectPairIX(st, ws, TRUE)
        s2 == [s1 EXCEPT !.waitingClients = Append(@, ClientIX(ws, "DISCONNECTED"))]
    IN  sendMessageToClientIX(s2, ws, "STATUS", "disconnected")

\* case 'CONNECT'
connectIX(st, ws) ==
    LET s1 == disconnectPairIX(st, ws, FALSE)
        i == FindIndex(s1.waitingClients, ws)
        s2 == IF i # 0
              THEN [s1 EXCEPT !.waitingClients = SetStatus(@, i, "WAITING")]
              ELSE [s1 EXCEPT !.waitingClients = Append(@, ClientIX(ws, "WAITING"))]
    IN  attemptToPairIX(s2, ws)

\* ws.on('message')
messageIX(st, ws, frame) ==
    IF ~frame.valid THEN st
    ELSE CASE frame.type = "SIGNAL" -> signalIX(st, ws, JsonParse(frame.signal))
           [] frame.type = "DISCONNECT" -> disconnectIX(st, ws)
           [] frame.type = "CONNECT" -> connectIX(st, ws)
           [] OTHER -> st

CommitIX(st) ==
    /\ readyState' = st.readyState
    /\ waitingClients' = st.waitingClients
    /\ pairs' = st.pairs
    /\ sent' = st.sent
    /\ UNCHANGED <<pendingUsers, pairedConnections, videoTimers, pairTimers,
                   timeouts, lastMode, lastRequest>>

InitIX ==
    /\ readyState = [s \in Sock |-> "CONNECTING"]
    /\ pendingUsers = << >>
    /\ pairedConnections = EmptyMap
    /\ videoTimers = EmptyMap
    /\ waitingClients = << >>
    /\ pairs = EmptyMap
    /\ pairTimers = EmptyMap
    /\ timeouts = {}
    /\ sent = << >>
    /\ event = Idle
    /\ lastMode = [s \in Sock |-> "none"]
    /\ lastRequest = [s \in Sock |-> "none"]

ConnectionIX(s) ==
    /\ event = Idle
    /\ readyState[s] = "CONNECTING"
    /\ \A r \in Sock : r < s => readyState[r] # "CONNECTING"
    /\ CommitIX(connectionIX(RegIX([readyState EXCEPT ![s] = "OPEN"]), s))
    /\ event' = Ev("connection", s, NoFrame, Undefined)

MessageIX(s) ==
    /\ event = Idle
    /\ readyState[s] = "OPEN"
    /\ \E frame \in Frames :
          IF Throws(frame)
          THEN ListenerThrows(s, frame)
          ELSE LET st == messageIX(RegIX(readyState), s, frame)
               IN
               /\ CommitIX(st)
               /\ event' = Ev(IF st.thrown THEN "uncaught" ELSE "message",
                              s, frame, Undefined)

ErrorIX(s) ==
    /\ event = Idle
    /\ readyState[s] \in {"OPEN", "CLOSING"}
    /\ CommitIX(cleanupClientIX(RegIX([readyState EXCEPT ![s] = "CLOSING"]), s))
    /\ event' = Ev("error", s, NoFrame, Undefined)

CloseIX(s) ==
    /\ event = Idle
    /\ readyState[s] \in {"OPEN", "CLOSING"}
    /\ CommitIX(cleanupClientIX(RegIX([readyState EXCEPT ![s] = "CLOSED"]), s))
    /\ event' = Ev("close", s, NoFrame, Undefined)

NextIX ==
    \/ \E s \in Sock : ConnectionIX(s)
    \/ \E s \in Sock : MessageIX(s)
    \/ \E s \in Sock : TransportDown(s)
    \/ \E s \in Sock : ErrorIX(s)
    \/ \E s \in Sock : CloseIX(s)
    \/ Settle
    \/ ExitIX

SpecIX == InitIX /\ [][NextIX]_vars

(***************************************************************************)
(* IX: properties                                                          *)
(***************************************************************************)
\* Socket s has in arr a WAITING entry that attemptToPair would keep.
ValidWaiting(arr, prs, rs, s) ==
    \E i \in 1 .. Len(arr) :
        /\ arr[i].ws = s /\ arr[i].status = "WAITING"
        /\ rs[s] = "OPEN" /\ ~MapHas(prs, s)

(* C3: in src/index.js every pair links two distinct sockets: in no
   reachable state is there a socket A with pairs.get(A) = A. *)
C3_NoSelfPairIX == \A a \in Sock : MapGet(pairs, a) # a

(* C4: in src/index.js, when X sends CONNECT while no other client is
   waiting, X receives a waiting STATUS and no PAIR_FOUND and is left
   waiting and unpaired; when a second client Y then sends CONNECT, X and Y
   are paired with each other and each receives exactly one PAIR_FOUND, one
   with initiator:true and the other with initiator:false. *)
C4_FirstWaitsIX ==
    \A x \in Sock :
        (/\ IsFrame(event', "CONNECT", x)
         /\ \A o \in Sock \ {x} : ~ValidWaiting(waitingClients, pairs, readyState, o)) =>
            /\ \E i \in SentTo(x, "STATUS")' : sent'[i].payload = "waiting"
            /\ SentTo(x, "PAIR_FOUND")' = {}
            /\ ValidWaiting(waitingClients', pairs', readyState', x)

C4_SecondPairsIX ==
    \A x, y \in Sock :
        (/\ x # y
         /\ IsFrame(event', "CONNECT", y)
         /\ ValidWaiting(waitingClients, pairs, readyState, x)
         /\ \A o \in Sock \ {x, y} : ~ValidWaiting(waitingClients, pairs, readyState, o)) =>
            /\ MapGet(pairs', x) = y /\ MapGet(pairs', y) = x
            /\ Cardinality(SentTo(x, "PAIR_FOUND")') = 1
            /\ Cardinality(SentTo(y, "PAIR_FOUND")') = 1
            /\ {sent'[i].payload : i \in (SentTo(x, "PAIR_FOUND") \cup SentTo(y, "PAIR_FOUND"))'}
                  = {"initiator:true", "initiator:false"}

C4_ConnectScenarioIX == [][C4_FirstWaitsIX /\ C4_SecondPairsIX]_vars

(***************************************************************************)
(* SQ: the single-queue timer server, src/unnamed/part_002 lines 1-196     *)
(***************************************************************************)
RegSQ(rs) ==
    [readyState |-> rs, pendingUsers |-> pendingUsers,
     pairedConnections |-> pairedConnections, videoTimers |-> videoTimers,
     timeouts |-> timeouts, sent |-> << >>]

\* Array.prototype.findIndex(u => u === ws) on an array of sockets: 1-based,
\* 0 for JavaScript's -1.
RECURSIVE FindSockFrom(_, _, _)
FindSockFrom(arr, ws, i) ==
    IF i > Len(arr) THEN 0
    ELSE IF arr[i] = ws THEN i
    ELSE FindSockFrom(arr, ws, i + 1)

FindSock(arr, ws) == FindSockFrom(arr, ws, 1)

\* JSON text of { initiator: b }.
InitiatorText(b) == IF b THEN "initiator:true" ELSE "initiator:false"

\* Mutant: the callback deletes the timer reference of ws1 only.
enableVideoModeForPairSQ_oneSided(st, ws1, ws2) ==
    LET s1 == IF MapGet(st.pairedConnections, ws1) = ws2
              THEN sendMessageToClient(
                       sendMessageToClient(st, ws1, "ENABLE_VIDEO", "enabled"),
                       ws2, "ENABLE_VIDEO", "enabled")
              ELSE st
    IN  IF MapHas(s1.videoTimers, ws1)
        THEN [s1 EXCEPT !.timeouts = @ \ {s1.videoTimers[ws1]},
                        !.videoTimers = MapDelete(@, ws1)]
        ELSE s1

enableVideoModeForPairSQ(st, ws1, ws2) ==
    LET s1 == IF MapGet(st.pairedConnections, ws1) = ws2
              THEN sendMessageToClient(
                       sendMessageToClient(st, ws1, "ENABLE_VIDEO", "enabled"),
                       ws2, "ENABLE_VIDEO", "enabled")
              ELSE st
    IN  IF MapHas(s1.videoTimers, ws1)
        THEN [s1 EXCEPT !.timeouts = @ \ {s1.videoTimers[ws1]},
                        !.videoTimers = MapDelete(MapDelete(@, ws1), ws2)]
        ELSE s1

\* Mutant: both sides are told the same initiator value.
pairFoundSQ_samePolarity(st, ws, partner, initiator) ==
    sendMessageToClient(
        sendMessageToClient(st, ws, "PAIR_FOUND", InitiatorText(initiator)),
        partner, "PAIR_FOUND", InitiatorText(initiator))

\* The two PAIR_FOUND messages of a match; initiator is Math.random() < 0.5.
pairFoundSQ(st, ws, partner, initiator) ==
    sendMessageToClient(
        sendMessageToClient(st, ws, "PAIR_FOUND", InitiatorText(initiator)),
        partner, "PAIR_FOUND", InitiatorText(~initiator))

\* Mutant: the partner is the head of pendingUsers, whatever its state.
attemptToPairSQ_headOfQueue(st, ws, initiator) ==
    IF Len(st.pendingUsers) > 0
    THEN LET partner == Head(st.pendingUsers)
             s1 == [st EXCEPT
                      !.pendingUsers = Tail(@),
                      !.pairedConnections = MapSet(MapSet(@, ws, partner), partner, ws)]
             s2 == pairFoundSQ(s1, ws, partner, initiator)
             timer == <<ws, partner>>
         IN  [s2 EXCEPT
                !.timeouts = @ \cup {timer},
                !.videoTimers = MapSet(MapSet(@, ws, timer), partner, timer)]
    ELSE sendMessageToClient(
             [st EXCEPT !.pendingUsers = Append(@, ws)], ws, "STATUS", "searching")

\* Mutant: the matched partner is not spliced out of pendingUsers.
attemptToPairSQ_partnerStays(st, ws, initiator) ==
    LET availableUsers ==
            SelectSeq(st.pendingUsers,
                LAMBDA user : st.readyState[user] = "OPEN"
                              /\ ~MapHas(st.pairedConnections, user))
    IN  IF Len(availableUsers) > 0
        THEN LET partner == Head(availableUsers)
                 s1 == [st EXCEPT
                          !.pairedConnections = MapSet(MapSet(@, ws, partner), partner, ws)]
                 s2 == pairFoundSQ(s1, ws, partner, initiator)
                 timer == <<ws, partner>>
             IN  [s2 EXCEPT
                    !.timeouts = @ \cup {timer},
                    !.videoTimers = MapSet(MapSet(@, ws, timer), partner, timer)]
        ELSE sendMessageToClient(
                 [st EXCEPT !.pendingUsers = Append(@, ws)], ws, "STATUS", "searching")

attemptToPairSQ(st, ws, initiator) ==
    LET availableUsers ==
            SelectSeq(st.pendingUsers,
                LAMBDA user : st.readyState[user] = "OPEN"
                              /\ ~MapHas(st.pairedConnections, user))
    IN  IF Len(availableUsers) > 0
        THEN LET partner == Head(availableUsers)
                 partnerIndex == FindSock(st.pendingUsers, partner)
                 s1 == [st EXCEPT
                          !.pendingUsers =
                              IF partnerIndex > 0 THEN Splice(@, partnerIndex) ELSE @,
                          !.pairedConnections = MapSet(MapSet(@, ws, partner), partner, ws)]
                 s2 == pairFoundSQ(s1, ws, partner, initiator)
                 timer == <<ws, partner>>
             IN  [s2 EXCEPT
                    !.timeouts = @ \cup {timer},
                    !.videoTimers = MapSet(MapSet(@, ws, timer), partner, timer)]
        ELSE sendMessageToClient(
                 [st EXCEPT !.pendingUsers = Append(@, ws)], ws, "STATUS", "searching")

\* Mutant: the partner is requeued first, the timer cleanup and the
\* DISCONNECTED notice come after.
disconnectPairSQ_requeueFirst(st, ws, shouldRequeuePartner, initiator) ==
    LET partner == MapGet(st.pairedConnections, ws)
        s1 == IF partner # Undefined
              THEN LET b == [st EXCEPT !.pairedConnections =
                                MapDelete(MapDelete(@, ws), partner)]
                   IN  IF shouldRequeuePartner /\ b.readyState[partner] = "OPEN"
                       THEN attemptToPairSQ(b, partner, initiator)
                       ELSE b
              ELSE st
        s2 == IF MapHas(st.videoTimers, ws)
              THEN [s1 EXCEPT
                      !.timeouts = @ \ {st.videoTimers[ws]},
                      !.videoTimers =
                          IF partner # Undefined
                          THEN MapDelete(MapDelete(@, ws), partner)
                          ELSE MapDelete(@, ws)]
              ELSE s1
        s3 == IF partner # Undefined
              THEN sendMessageToClient(s2, partner, "DISCONNECTED", "partner")
              ELSE s2
        pendingIndex == FindSock(s3.pendingUsers, ws)
    IN  IF pendingIndex > 0
        THEN [s3 EXCEPT !.pendingUsers = Splice(@, pendingIndex)]
        ELSE s3

disconnectPairSQ(st, ws, shouldRequeuePartner, initiator) ==
    LET partner == MapGet(st.pairedConnections, ws)
        \* 1. timer cleanup
        s1 == IF MapHas(st.videoTimers, ws)
              THEN [st EXCEPT
                      !.timeouts = @ \ {st.videoTimers[ws]},
                      !.videoTimers =
                          IF partner # Undefined
                          THEN MapDelete(MapDelete(@, ws), partner)
                          ELSE MapDelete(@, ws)]
              ELSE st
        \* 2. partner cleanup
        s2 == IF partner # Undefined
              THEN LET a == sendMessageToClient(s1, partner, "DISCONNECTED", "partner")
                       b == [a EXCEPT !.pairedConnections =
                                MapDelete(MapDelete(@, ws), partner)]
                   IN  IF shouldRequeuePartner /\ b.readyState[partner] = "OPEN"
                       THEN attemptToPairSQ(b, partner, initiator)
                       ELSE b
              ELSE s1
        \* 3. cleanup from the pending queue
        pendingIndex == FindSock(s2.pendingUsers, ws)
    IN  IF pendingIndex > 0
        THEN [s2 EXCEPT !.pendingUsers = Splice(@, pendingIndex)]
        ELSE s2

\* wss.on('connection')
connectionSQ(st, ws) == sendMessageToClient(st, ws, "STATUS", "press connect")

\* case 'SIGNAL'
signalSQ(st, ws, signal) ==
    LET partner == MapGet(st.pairedConnections, ws)
    IN  IF partner # Undefined
        THEN sendMessageToClient(st, partner, "SIGNAL", signal)
        ELSE st

\* case 'DISCONNECT'
disconnectSQ(st, ws, initiator) == disconnectPairSQ(st, ws, FALSE, initiator)

\* case 'CONNECT'
connectSQ(st, ws, initiator) ==
    attemptToPairSQ(disconnectPairSQ(st, ws, FALSE, initiator), ws, initiator)

\* ws.on('message')
messageSQ(st, ws, frame, initiator) ==
    IF ~frame.valid THEN st
    ELSE CASE frame.type = "SIGNAL" -> signalSQ(st, ws, JsonParse(frame.signal))
           [] frame.type = "DISCONNECT" -> disconnectSQ(st, ws, initiator)
           [] frame.type = "CONNECT" -> connectSQ(st, ws, initiator)
           [] OTHER -> st

\* Mutant: a closed transport does not requeue the partner.
closeSQ_noRequeue(st, ws, initiator) == disconnectPairSQ(st, ws, FALSE, initiator)

\* ws.on('close') and ws.on('error')
closeSQ(st, ws, initiator) == disconnectPairSQ(st, ws, TRUE, initiator)

errorSQ(st, ws, initiator) == disconnectPairSQ(st, ws, TRUE, initiator)

CommitSQ(st) ==
    /\ readyState' = st.readyState
    /\ pendingUsers' = st.pendingUsers
    /\ pairedConnections' = st.pairedConnections
    /\ videoTimers' = st.videoTimers
    /\ timeouts' = st.timeouts
    /\ sent' = st.sent
    /\ UNCHANGED <<waitingClients, pairs, pairTimers, lastMode, lastRequest>>

InitSQ ==
    /\ readyState = [s \in Sock |-> "CONNECTING"]
    /\ pendingUsers = << >>
    /\ pairedConnections = EmptyMap
    /\ videoTimers = EmptyMap
    /\ waitingClients = << >>
    /\ pairs = EmptyMap
    /\ pairTimers = EmptyMap
    /\ timeouts = {}
    /\ sent = << >>
    /\ event = Idle
    /\ lastMode = [s \in Sock |-> "none"]
    /\ lastRequest = [s \in Sock |-> "none"]

ConnectionSQ(s) ==
    /\ event = Idle
    /\ readyState[s] = "CONNECTING"
    /\ \A r \in Sock : r < s => readyState[r] # "CONNECTING"
    /\ CommitSQ(connectionSQ(RegSQ([readyState EXCEPT ![s] = "OPEN"]), s))
    /\ event' = Ev("connection", s, NoFrame, Undefined)

\* The outcome of Math.random() < 0.5 is drawn where a match can be made.
MessageSQ(s) ==
    /\ event = Idle
    /\ readyState[s] = "OPEN"
    /\ \E frame \in Frames :
          IF Throws(frame)
          THEN ListenerThrows(s, frame)
          ELSE \E initiator \in (IF frame.type = "CONNECT" THEN BOOLEAN ELSE {TRUE}) :
                 /\ CommitSQ(messageSQ(RegSQ(readyState), s, frame, initiator))
                 /\ event' = Ev("message", s, frame, Undefined)

ErrorSQ(s) ==
    /\ event = Idle
    /\ readyState[s] \in {"OPEN", "CLOSING"}
    /\ \E initiator \in BOOLEAN :
          CommitSQ(errorSQ(RegSQ([readyState EXCEPT ![s] = "CLOSING"]), s, initiator))
    /\ event' = Ev("error", s, NoFrame, Undefined)

CloseSQ(s) ==
    /\ event = Idle
    /\ readyState[s] \in {"OPEN", "CLOSING"}
    /\ \E initiator \in BOOLEAN :
          CommitSQ(closeSQ(RegSQ([readyState EXCEPT ![s] = "CLOSED"]), s, initiator))
    /\ event' = Ev("close", s, NoFrame, Undefined)

TimerSQ(t) ==
    /\ event = Idle
    /\ t \in timeouts
    /\ CommitSQ(enableVideoModeForPairSQ(
                   [RegSQ(readyState) EXCEPT !.timeouts = @ \ {t}], t[1], t[2]))
    /\ event' = Ev("timer", t[1], NoFrame, t[2])

NextSQ ==
    \/ \E s \in Sock : ConnectionSQ(s)
    \/ \E s \in Sock : MessageSQ(s)
    \/ \E s \in Sock : TransportDown(s)
    \/ \E s \in Sock : ErrorSQ(s)
    \/ \E s \in Sock : CloseSQ(s)
    \/ \E t \in Sock \X Sock : TimerSQ(t)
    \/ Settle
    \/ ExitIX

SpecSQ == InitSQ /\ [][NextSQ]_vars

(***************************************************************************)
(* SQ: properties                                                          *)
(***************************************************************************)
PairedSQ(s) == MapHas(pairedConnections, s)

\* Socket s has an entry in pendingUsers.
PendingSQ(s) == \E i \in 1 .. Len(pendingUsers) : pendingUsers[i] = s

\* Socket s is a waiting socket a match may choose.
EligibleSQ(s) == PendingSQ(s) /\ readyState[s] = "OPEN" /\ ~PairedSQ(s)

\* The sockets linked to a new partner by the step.
NewlyPairedSQ ==
    {a \in Sock : MapHas(pairedConnections', a)
                  /\ MapGet(pairedConnections, a) # pairedConnections'[a]}

\* The socket for which the step runs attemptToPair: the sender of CONNECT,
\* or the partner of a socket that closes or errors.
RequesterSQ ==
    IF event'.kind = "message" THEN event'.ws
    ELSE MapGet(pairedConnections, event'.ws)

(* C5: in SQ every pairing transaction links the requesting socket with one
   waiting socket and sends exactly one PAIR_FOUND to each of the two, with
   opposite initiator values; no PAIR_FOUND is sent otherwise. *)
C5_PairingStepSQ ==
    IF NewlyPairedSQ = {}
    THEN \A i \in 1 .. Len(sent') : sent'[i].type # "PAIR_FOUND"
    ELSE \E w, p \in Sock :
            /\ w # p /\ NewlyPairedSQ = {w, p}
            /\ w = RequesterSQ
            /\ EligibleSQ(p) /\ ~PendingSQ(p)'
            /\ pairedConnections'[w] = p /\ pairedConnections'[p] = w
            /\ Cardinality(SentTo(w, "PAIR_FOUND")') = 1
            /\ Cardinality(SentTo(p, "PAIR_FOUND")') = 1
            /\ \A i \in 1 .. Len(sent') :
                  sent'[i].type = "PAIR_FOUND" => sent'[i].to \in {w, p} /\ sent'[i].delivered
            /\ {sent'[i].payload : i \in SentTo(w, "PAIR_FOUND")'} \cup
               {sent'[i].payload : i \in SentTo(p, "PAIR_FOUND")'}
                  = {"initiator:true", "initiator:false"}
            /\ \A i \in SentTo(w, "PAIR_FOUND")', j \in SentTo(p, "PAIR_FOUND")' :
                  sent'[i].payload # sent'[j].payload

C5_OppositeInitiatorsSQ == [][C5_PairingStepSQ]_vars

\* A CONNECT has matched its sender with a waiting socket, and the waiting
\* socket is the one told to initiate.
C5_Witness ==
    \E w, p \in Sock :
        /\ IsFrame(event, "CONNECT", w) /\ w # p
        /\ MapGet(pairedConnections, w) = p
        /\ \E i \in SentTo(p, "PAIR_FOUND") : sent[i].payload = "initiator:true"

\* The first eligible entry of pendingUsers.
FirstEligibleSQ(s) ==
    \E i \in 1 .. Len(pendingUsers) :
        /\ pendingUsers[i] = s /\ EligibleSQ(s)
        /\ \A j \in 1 .. (i - 1) : ~EligibleSQ(pendingUsers[j])

(* C8: in SQ, when the transport of X closes while X is paired with an open
   socket Y, Y is sent DISCONNECTED and requeued in the same step: paired at
   once if an eligible socket is waiting, otherwise appended to
   pendingUsers; and while Y waits and stays open, the next client Z that
   sends CONNECT is paired with Y. *)
C8_CloseStepSQ ==
    \A x, y \in Sock :
        (/\ event'.kind \in {"close", "error"} /\ event'.ws = x
         /\ MapGet(pairedConnections, x) = y /\ readyState'[y] = "OPEN") =>
            /\ Cardinality(SentTo(y, "DISCONNECTED")') = 1
            /\ \A i \in SentTo(y, "DISCONNECTED")' : sent'[i].delivered
            /\ ~PairedSQ(x)'
            /\ IF \E z \in Sock : EligibleSQ(z)
               THEN \E z \in Sock :
                       /\ FirstEligibleSQ(z) /\ z # x
                       /\ MapGet(pairedConnections', y) = z
                       /\ MapGet(pairedConnections', z) = y
               ELSE /\ ~PairedSQ(y)'
                    /\ Len(pendingUsers') > 0
                    /\ pendingUsers'[Len(pendingUsers')] = y

C8_NextArrivalSQ ==
    \A y, z \in Sock :
        (y # z /\ EligibleSQ(y) /\ IsFrame(event', "CONNECT", z)) =>
            (MapGet(pairedConnections', z) = y /\ MapGet(pairedConnections', y) = z)

C8_SurvivorRequeuedSQ == [][C8_CloseStepSQ /\ C8_NextArrivalSQ]_vars

\* The transport of X has closed; its open partner was notified and now
\* waits in pendingUsers.
C8_Witness ==
    \E y \in Sock :
        /\ event.kind = "close"
        /\ SentTo(y, "DISCONNECTED") # {}
        /\ EligibleSQ(y)

(***************************************************************************)
(* P0: the status-tracking server of src/unnamed/part_000                  *)
(***************************************************************************)
RegP0(rs) ==
    [readyState |-> rs, waitingClients |-> waitingClients, pairs |-> pairs,
     sent |-> << >>, thrown |-> FALSE]

attemptToPairP0(st, ws) ==
    LET validWaitingClients ==
            SelectSeq(st.waitingClients,
                LAMBDA c : st.readyState[c.ws] = "OPEN"
                           /\ ~MapHas(st.pairs, c.ws) /\ c.status = "WAITING")
        \* 2. the current client is taken out of the list
        currentClientIndex == FindIndex(validWaitingClients, ws)
        currentClientObj ==
            IF currentClientIndex # 0
            THEN validWaitingClients[currentClientIndex]
            ELSE ClientIX(ws, "WAITING")
        others ==
            IF currentClientIndex # 0
            THEN Splice(validWaitingClients, currentClientIndex)
            ELSE validWaitingClients
    IN  IF Len(others) > 0
        THEN LET partner == Head(others).ws
                 s1 == [st EXCEPT
                          !.waitingClients = Tail(others),
                          !.pairs = MapSet(MapSet(@, ws, partner), partner, ws)]
                 s2 == sendMessageToClientIX(s1, ws, "PAIR_FOUND", "initiator:true")
             IN  sendMessageToClientIX(s2, partner, "PAIR_FOUND", "initiator:false")
        ELSE sendMessageToClientIX(
                 [st EXCEPT !.waitingClients = Append(others, currentClientObj)],
                 ws, "STATUS", "waiting")

disconnectPairP0(st, ws, shouldRequeuePartner) ==
    LET partner == MapGet(st.pairs, ws)
        s1 == IF partner # Undefined
              THEN LET a == sendMessageToClientIX(st, partner, "DISCONNECTED", "partner")
                       b == [a EXCEPT !.pairs = MapDelete(MapDelete(@, ws), partner)]
                       partnerIndex == FindIndex(b.waitingClients, partner)
                   IN  IF partnerIndex # 0
                       THEN IF shouldRequeuePartner
                            THEN attemptToPairP0(
                                     [b EXCEPT !.waitingClients =
                                         SetStatus(@, partnerIndex, "WAITING")],
                                     partner)
                            ELSE [b EXCEPT !.waitingClients =
                                     SetStatus(@, partnerIndex, "DISCONNECTED")]
                       ELSE IF shouldRequeuePartner
                            THEN attemptToPairP0(
                                     [b EXCEPT !.waitingClients =
                                         Append(@, ClientIX(partner, "WAITING"))],
                                     partner)
                            ELSE b
              ELSE st
        index == FindIndex(s1.waitingClients, ws)
    IN  IF index # 0
        THEN [s1 EXCEPT !.waitingClients = SetStatus(@, index, "DISCONNECTED")]
        ELSE s1

cleanupClientP0(st, ws) ==
    LET s1 == disconnectPairP0(st, ws, TRUE)
        index == FindIndex(s1.waitingClients, ws)
    IN  IF index # 0
        THEN [s1 EXCEPT !.waitingClients = Splice(@, index)]
        ELSE s1

\* Mutant: a new socket is recorded as WAITING.
connectionP0_waiting(st, ws) ==
    sendMessageToClientIX(
        [st EXCEPT !.waitingClients = Append(@, ClientIX(ws, "WAITING"))],
        ws, "STATUS", "press connect")

\* wss.on('connection')
connectionP0(st, ws) ==
    sendMessageToClientIX(
        [st EXCEPT !.waitingClients = Append(@, ClientIX(ws, "DISCONNECTED"))],
        ws, "STATUS", "press connect")

\* case 'SIGNAL'
signalP0(st, ws, signal) ==
    LET partner == MapGet(st.pairs, ws)
    IN  IF partner # Undefined
        THEN sendMessageToClientIX(st, partner, "SIGNAL", signal)
        ELSE sendMessageToClientIX(st, ws, "STATUS", "not paired")

\* case 'DISCONNECT'
disconnectP0(st, ws) ==
    sendMessageToClientIX(disconnectPairP0(st, ws, TRUE), ws, "STATUS", "disconnected")

\* case 'CONNECT'
connectP0(st, ws) ==
    LET s1 == disconnectPairP0(st, ws, FALSE)
        i == FindIndex(s1.waitingClients, ws)
        s2 == IF i # 0
              THEN [s1 EXCEPT !.waitingClients = SetStatus(@, i, "WAITING")]
              ELSE [s1 EXCEPT !.waitingClients = Append(@, ClientIX(ws, "WAITING"))]
    IN  attemptToPairP0(s2, ws)

\* ws.on('message')
messageP0(st, ws, frame) ==
    IF ~frame.valid THEN st
    ELSE CASE frame.type = "SIGNAL" -> signalP0(st, ws, JsonParse(frame.signal))
           [] frame.type = "DISCONNECT" -> disconnectP0(st, ws)
           [] frame.type = "CONNECT" -> connectP0(st, ws)
           [] OTHER -> st

\* The registries after a handler of P0, written back.
CommitP0(st) ==
    /\ readyState' = st.readyState
    /\ waitingClients' = st.waitingClients
    /\ pairs' = st.pairs
    /\ sent' = st.sent
    /\ UNCHANGED <<pendingUsers, pairedConnections, videoTimers, pairTimers,
                   timeouts, lastMode>>

ConnectionP0(s) ==
    /\ event = Idle
    /\ readyState[s] = "CONNECTING"
    /\ \A r \in Sock : r < s => readyState[r] # "CONNECTING"
    /\ CommitP0(connectionP0(RegP0([readyState EXCEPT ![s] = "OPEN"]), s))
    /\ event' = Ev("connection", s, NoFrame, Undefined)
    /\ UNCHANGED lastRequest

MessageP0(s) ==
    /\ event = Idle
    /\ readyState[s] = "OPEN"
    /\ \E frame \in Frames :
          IF Throws(frame)
          THEN ListenerThrows(s, frame)
          ELSE LET st == messageP0(RegP0(readyState), s, frame)
               IN
               /\ CommitP0(st)
               /\ event' = Ev(IF st.thrown THEN "uncaught" ELSE "message",
                              s, frame, Undefined)
               /\ lastRequest' =
                     IF frame.valid /\ frame.type \in {"CONNECT", "DISCONNECT"}
                     THEN [lastRequest EXCEPT ![s] = frame.type]
                     ELSE lastRequest

ErrorP0(s) ==
    /\ event = Idle
    /\ readyState[s] \in {"OPEN", "CLOSING"}
    /\ CommitP0(cleanupClientP0(RegP0([readyState EXCEPT ![s] = "CLOSING"]), s))
    /\ event' = Ev("error", s, NoFrame, Undefined)
    /\ UNCHANGED lastRequest

CloseP0(s) ==
    /\ event = Idle
    /\ readyState[s] \in {"OPEN", "CLOSING"}
    /\ CommitP0(cleanupClientP0(RegP0([readyState EXCEPT ![s] = "CLOSED"]), s))
    /\ event' = Ev("close", s, NoFrame, Undefined)
    /\ UNCHANGED lastRequest

NextP0 ==
    \/ \E s \in Sock : ConnectionP0(s)
    \/ \E s \in Sock : MessageP0(s)
    \/ \E s \in Sock : TransportDown(s)
    \/ \E s \in Sock : ErrorP0(s)
    \/ \E s \in Sock : CloseP0(s)
    \/ Settle
    \/ ExitIX

\* The registries of P0 start like those of IX.
SpecP0 == InitIX /\ [][NextP0]_vars

(***************************************************************************)
(* P0: properties                                                          *)
(***************************************************************************)
\* Socket s has a WAITING entry in waitingClients.
HasWaitingEntry(arr, s) ==
    \E i \in 1 .. Len(arr) : arr[i].ws = s /\ arr[i].status = "WAITING"

(* C7: in P0, when X, paired with Y, sends DISCONNECT, Y receives
   DISCONNECTED and is not requeued: after the step Y has no WAITING entry
   in waitingClients and is paired with nobody, and stays so until Y itself
   sends CONNECT. *)
C7_PartnerNotRequeuedP0 ==
    [][/\ \A x, y \in Sock :
             (IsFrame(event', "DISCONNECT", x) /\ MapGet(pairs, x) = y) =>
                 /\ SentTo(y, "DISCONNECTED")' # {}
                 /\ ~HasWaitingEntry(waitingClients', y)
                 /\ ~MapHas(pairs', y)
       /\ \A y \in Sock :
             (/\ ~HasWaitingEntry(waitingClients, y) /\ ~MapHas(pairs, y)
              /\ ~IsFrame(event', "CONNECT", y)) =>
                 (~HasWaitingEntry(waitingClients', y) /\ ~MapHas(pairs', y))]_vars

(***************************************************************************)
(* MP: escalation timers                                                   *)
(***************************************************************************)
\* Timer t is registered under socket s in the map vt.
RegisteredMP(vt, s, t) == MapHas(vt, s) /\ vt[s] = t

\* The pair a-b is formed by this step.
PairFormedMP(a, b) ==
    /\ a # b
    /\ MapGet(pairedConnections, a) # b
    /\ MapGet(pairedConnections', a) = b

\* The pair a-b stands before this step and not after it.
PairDissolvedMP(a, b) ==
    /\ a # b
    /\ MapGet(pairedConnections, a) = b
    /\ MapGet(pairedConnections', a) # b

\* The match made by this step took b, the non-initiator, out of the queue of
\* mode m.
WaitingPartnerMP(b, m) ==
    /\ QueuedMP(b, m)
    /\ \E i \in SentTo(b, "PAIR_FOUND")' : sent'[i].payload = "initiator:false"

\* This step is the callback of timer t.
TimerFiresMP(t) ==
    event'.kind = "timer" /\ <<event'.ws, event'.ws2>> = t

\* ENABLE_VIDEO is sent to s exactly once by the last handler.
EnableVideoSentOnce(s) == Cardinality(SentTo(s, "ENABLE_VIDEO")) = 1

\* Every videoTimers entry belongs to a paired socket, is shared with its
\* partner and is a pending timeout of that pair; every pending timeout is
\* registered under both sockets it closes over.
C11_TimerRegistryMP ==
    /\ \A a \in Sock :
          MapHas(videoTimers, a) =>
              LET b == MapGet(pairedConnections, a)
              IN  /\ b # Undefined
                  /\ RegisteredMP(videoTimers, b, videoTimers[a])
                  /\ videoTimers[a] \in timeouts
                  /\ videoTimers[a] \in {<<a, b>>, <<b, a>>}
    /\ \A t \in timeouts :
          RegisteredMP(videoTimers, t[1], t) /\ RegisteredMP(videoTimers, t[2], t)

\* The steps of a timer: scheduled by a voice match (the waiting partner was
\* taken from the voice queue), kept while the pair stands and it has not
\* fired, gone once the pair is dissolved or it has fired, and on firing
\* ENABLE_VIDEO goes to both iff they are paired with each other.
C11_TimerStepMP ==
    \A a, b \in Sock :
        /\ (PairFormedMP(a, b) /\ WaitingPartnerMP(b, "voice")) =>
               /\ MapHas(videoTimers', a) /\ MapHas(videoTimers', b)
               /\ videoTimers'[a] = videoTimers'[b]
               /\ videoTimers'[a] \in timeouts'
               /\ Cardinality({t \in timeouts' : t[1] \in {a, b} \/ t[2] \in {a, b}}) = 1
        /\ (MapGet(pairedConnections, a) = b /\ MapHas(videoTimers, a)
              /\ ~PairDissolvedMP(a, b) /\ ~TimerFiresMP(videoTimers[a])) =>
               /\ RegisteredMP(videoTimers', a, videoTimers[a])
               /\ videoTimers[a] \in timeouts'
        /\ (PairDissolvedMP(a, b) /\ MapHas(videoTimers, a)) =>
               /\ videoTimers[a] \notin timeouts'
               /\ ~RegisteredMP(videoTimers', a, videoTimers[a])
               /\ ~RegisteredMP(videoTimers', b, videoTimers[a])
               /\ MapHas(videoTimers', a) => PairFormedMP(a, MapGet(pairedConnections', a))
               /\ MapHas(videoTimers', b) => PairFormedMP(b, MapGet(pairedConnections', b))
        /\ TimerFiresMP(<<a, b>>) =>
               /\ ~MapHas(videoTimers', a) /\ ~MapHas(videoTimers', b)
               /\ <<a, b>> \notin timeouts'
               /\ IF MapGet(pairedConnections, a) = b
                  THEN EnableVideoSentOnce(a)' /\ EnableVideoSentOnce(b)'
                  ELSE SentTo(a, "ENABLE_VIDEO")' = {} /\ SentTo(b, "ENABLE_VIDEO")' = {}

\* After this step neither member of a pair dissolved by it, whose timer was
\* live, has any videoTimers entry.
C11_NoEntryAfterDissolutionMP ==
    \A a, b \in Sock :
        (PairDissolvedMP(a, b) /\ MapHas(videoTimers, a)) =>
            ~MapHas(videoTimers', a) /\ ~MapHas(videoTimers', b)

(* C11: in MP a pair formed by a voice-mode match has exactly one live
   escalation timer, registered in videoTimers under both members, from the
   pairing until the pair is dissolved or the timer fires; after dissolution
   or firing neither member has a videoTimers entry; when the timer fires
   both members are sent ENABLE_VIDEO if and only if they are still paired
   with each other. *)
C11_VoiceTimerNoEntryMP ==
    [][/\ C11_TimerRegistryMP /\ C11_TimerRegistryMP'
       /\ C11_TimerStepMP
       /\ C11_NoEntryAfterDissolutionMP]_vars

(* C11, with the entries a dissolution leaves told apart: in MP a pair formed
   by a voice-mode match has exactly one live escalation timer, registered in
   videoTimers under both members, from the pairing until the pair is
   dissolved or the timer fires; after dissolution or firing the timer is
   cancelled and neither member has a videoTimers entry for it, and a member
   has an entry at all only if the same handler has matched it again (a
   paired client sending CONNECT, or a survivor requeued and matched at once),
   the entry then being the timer of its new pair; when the timer fires both
   members are sent ENABLE_VIDEO if and only if they are still paired with
   each other. *)
C11_VoiceTimerMP == [][C11_TimerRegistryMP /\ C11_TimerRegistryMP' /\ C11_TimerStepMP]_vars

\* A paired socket has sent CONNECT and was matched at once with a socket
\* waiting in the voice queue: its old partner was notified and has no entry,
\* and the only live timer is the one of the new pair.
C11_Witness ==
    \E a, b, c \in Sock :
        /\ IsFrame(event, "CONNECT", a)
        /\ SentTo(b, "DISCONNECTED") # {} /\ ~PairedMP(b) /\ ~MapHas(videoTimers, b)
        /\ MapGet(pairedConnections, a) = c
        /\ RegisteredMP(videoTimers, a, <<a, c>>)
        /\ RegisteredMP(videoTimers, c, <<a, c>>)
        /\ timeouts = {<<a, c>>}

(***************************************************************************)
(* SQ: escalation timers, signalling, matching order                       *)
(***************************************************************************)
(* C12: in SQ a socket has a videoTimers entry only while it is in
   pairedConnections, and the two members of a pair either both have no
   entry or both map to the same timer. *)
C12_TimerOnlyForPairedSQ ==
    \A a \in Sock :
        /\ MapHas(videoTimers, a) => PairedSQ(a)
        /\ PairedSQ(a) =>
              LET b == pairedConnections[a]
              IN  \/ ~MapHas(videoTimers, a) /\ ~MapHas(videoTimers, b)
                  \/ /\ MapHas(videoTimers, a) /\ MapHas(videoTimers, b)
                     /\ videoTimers[a] = videoTimers[b]

\* A transport went down and the survivor was matched with a waiting socket:
\* the new pair shares one timer and the socket that left has none.
C12_Witness ==
    \E a, b \in Sock :
        /\ event.kind \in {"close", "error"}
        /\ a # b /\ MapGet(pairedConnections, a) = b
        /\ MapHas(videoTimers, a) /\ MapHas(videoTimers, b)
        /\ videoTimers[a] = videoTimers[b]
        /\ ~MapHas(videoTimers, event.ws) /\ ~PairedSQ(event.ws)

(***************************************************************************)
(* ST: the status-tracking timer server, src/unnamed/part_002 lines 197-403 *)
(***************************************************************************)
RegST(rs) ==
    [readyState |-> rs, waitingClients |-> waitingClients, pairs |-> pairs,
     pairTimers |-> pairTimers, timeouts |-> timeouts, sent |-> << >>, thrown |-> FALSE]

\* A client object { ws, status, mode }.
ClientST(ws, status, mode) == [ws |-> ws, status |-> status, mode |-> mode]

\* The callback of a timer: it sends without looking at pairs.
enableVideoModeForPairST(st, ws1, ws2) ==
    LET s1 == sendMessageToClientIX(st, ws1, "ENABLE_VIDEO", "enabled")
        s2 == sendMessageToClientIX(s1, ws2, "ENABLE_VIDEO", "enabled")
    IN  [s2 EXCEPT !.pairTimers = MapDelete(MapDelete(@, ws1), ws2)]

attemptToPairST(st, ws) ==
    LET validWaitingClients ==
            SelectSeq(st.waitingClients,
                LAMBDA c : st.readyState[c.ws] = "OPEN"
                           /\ ~MapHas(st.pairs, c.ws) /\ c.status = "WAITING")
        currentClientIndex == FindIndex(validWaitingClients, ws)
        currentClientObj ==
            IF currentClientIndex # 0
            THEN validWaitingClients[currentClientIndex]
            ELSE ClientST(ws, "WAITING", "voice")
        others ==
            IF currentClientIndex # 0
            THEN Splice(validWaitingClients, currentClientIndex)
            ELSE validWaitingClients
    IN  IF Len(others) > 0
        THEN LET partner == Head(others).ws
                 s1 == [st EXCEPT
                          !.waitingClients = Tail(others),
                          !.pairs = MapSet(MapSet(@, ws, partner), partner, ws)]
                 s2 == sendMessageToClientIX(s1, ws, "PAIR_FOUND", "initiator:true")
                 s3 == sendMessageToClientIX(s2, partner, "PAIR_FOUND", "initiator:false")
                 timer == <<ws, partner>>
             IN  [s3 EXCEPT
                    !.timeouts = @ \cup {timer},
                    !.pairTimers = MapSet(MapSet(@, ws, timer), partner, timer)]
        ELSE sendMessageToClientIX(
                 [st EXCEPT !.waitingClients = Append(others, currentClientObj)],
                 ws, "STATUS", "waiting")

\* Mutant: disconnectPair leaves the timer of the pair running.
clearTimerST_skipped(st, ws, partner) == st

\* TIMER CLEANUP of disconnectPair: clearTimeout and the two deletes.
clearTimerST(st, ws, partner) ==
    IF MapHas(st.pairTimers, ws)
    THEN [st EXCEPT
            !.timeouts = @ \ {st.pairTimers[ws]},
            !.pairTimers =
                IF partner # Undefined
                THEN MapDelete(MapDelete(@, ws), partner)
                ELSE MapDelete(@, ws)]
    ELSE st

disconnectPairST(st, ws, shouldRequeuePartner) ==
    LET partner == MapGet(st.pairs, ws)
        s0 == clearTimerST(st, ws, partner)
        s1 == IF partner # Undefined
              THEN LET a == sendMessageToClientIX(s0, partner, "DISCONNECTED", "partner")
                       b == [a EXCEPT !.pairs = MapDelete(MapDelete(@, ws), partner)]
                       partnerIndex == FindIndex(b.waitingClients, partner)
                   IN  IF partnerIndex # 0
                       THEN IF shouldRequeuePartner
                            THEN attemptToPairST(
                                     [b EXCEPT !.waitingClients =
                                         SetStatus(@, partnerIndex, "WAITING")],
                                     partner)
                            ELSE [b EXCEPT !.waitingClients =
                                     SetStatus(@, partnerIndex, "DISCONNECTED")]
                       ELSE IF shouldRequeuePartner
                            THEN attemptToPairST(
                                     [b EXCEPT !.waitingClients =
                                         Append(@, ClientST(partner, "WAITING", "voice"))],
                                     partner)
                            ELSE b
              ELSE s0
        index == FindIndex(s1.waitingClients, ws)
    IN  IF index # 0
        THEN [s1 EXCEPT !.waitingClients = SetStatus(@, index, "DISCONNECTED")]
        ELSE s1

cleanupClientST(st, ws) ==
    LET s1 == disconnectPairST(st, ws, TRUE)
        index == FindIndex(s1.waitingClients, ws)
    IN  IF index # 0
        THEN [s1 EXCEPT !.waitingClients = Splice(@, index)]
        ELSE s1

\* wss.on('connection')
connectionST(st, ws) ==
    sendMessageToClientIX(
        [st EXCEPT !.waitingClients = Append(@, ClientST(ws, "DISCONNECTED", "voice"))],
        ws, "STATUS", "press connect")

\* case 'SIGNAL'
signalST(st, ws, signal) ==
    LET partner == MapGet(st.pairs, ws)
    IN  IF partner # Undefined
        THEN sendMessageToClientIX(st, partner, "SIGNAL", signal)
        ELSE sendMessageToClientIX(st, ws, "STATUS", "not paired")

\* case 'DISCONNECT'
disconnectST(st, ws) ==
    sendMessageToClientIX(disconnectPairST(st, ws, TRUE), ws, "STATUS", "disconnected")

\* case 'CONNECT'
connectST(st, ws, modeArg) ==
    LET s1 == disconnectPairST(st, ws, FALSE)
        i == FindIndex(s1.waitingClients, ws)
        s2 == IF i # 0
              THEN [s1 EXCEPT !.waitingClients =
                       [@ EXCEPT ![i].status = "WAITING", ![i].mode = NewMode(modeArg)]]
              ELSE [s1 EXCEPT !.waitingClients =
                       Append(@, ClientST(ws, "WAITING", NewMode(modeArg)))]
    IN  attemptToPairST(s2, ws)

\* ws.on('message')
messageST(st, ws, frame) ==
    IF ~frame.valid THEN st
    ELSE CASE frame.type = "SIGNAL" -> signalST(st, ws, JsonParse(frame.signal))
           [] frame.type = "DISCONNECT" -> disconnectST(st, ws)
           [] frame.type = "CONNECT" -> connectST(st, ws, frame.mode)
           [] OTHER -> st

CommitST(st) ==
    /\ readyState' = st.readyState
    /\ waitingClients' = st.waitingClients
    /\ pairs' = st.pairs
    /\ pairTimers' = st.pairTimers
    /\ timeouts' = st.timeouts
    /\ sent' = st.sent
    /\ UNCHANGED <<pendingUsers, pairedConnections, videoTimers, lastRequest>>

ConnectionST(s) ==
    /\ event = Idle
    /\ readyState[s] = "CONNECTING"
    /\ \A r \in Sock : r < s => readyState[r] # "CONNECTING"
    /\ CommitST(connectionST(RegST([readyState EXCEPT ![s] = "OPEN"]), s))
    /\ event' = Ev("connection", s, NoFrame, Undefined)
    /\ UNCHANGED lastMode

MessageST(s) ==
    /\ event = Idle
    /\ readyState[s] = "OPEN"
    /\ \E frame \in Frames :
          IF Throws(frame)
          THEN ListenerThrows(s, frame)
          ELSE LET st == messageST(RegST(readyState), s, frame)
               IN
               /\ CommitST(st)
               /\ event' = Ev(IF st.thrown THEN "uncaught" ELSE "message",
                              s, frame, Undefined)
               /\ lastMode' = IF frame.valid /\ frame.type = "CONNECT"
                              THEN [lastMode EXCEPT ![s] = NewMode(frame.mode)]
                              ELSE lastMode

ErrorST(s) ==
    /\ event = Idle
    /\ readyState[s] \in {"OPEN", "CLOSING"}
    /\ CommitST(cleanupClientST(RegST([readyState EXCEPT ![s] = "CLOSING"]), s))
    /\ event' = Ev("error", s, NoFrame, Undefined)
    /\ UNCHANGED lastMode

CloseST(s) ==
    /\ event = Idle
    /\ readyState[s] \in {"OPEN", "CLOSING"}
    /\ CommitST(cleanupClientST(RegST([readyState EXCEPT ![s] = "CLOSED"]), s))
    /\ event' = Ev("close", s, NoFrame, Undefined)
    /\ lastMode' = [lastMode EXCEPT ![s] = "none"]

\* A pending timeout elapses and its callback runs.
TimerST(t) ==
    /\ event = Idle
    /\ t \in timeouts
    /\ CommitST(enableVideoModeForPairST(
                   [RegST(readyState) EXCEPT !.timeouts = @ \ {t}], t[1], t[2]))
    /\ event' = Ev("timer", t[1], NoFrame, t[2])
    /\ UNCHANGED lastMode

NextST ==
    \/ \E s \in Sock : ConnectionST(s)
    \/ \E s \in Sock : MessageST(s)
    \/ \E s \in Sock : TransportDown(s)
    \/ \E s \in Sock : ErrorST(s)
    \/ \E s \in Sock : CloseST(s)
    \/ \E t \in Sock \X Sock : TimerST(t)
    \/ Settle
    \/ ExitIX

\* The registries of ST start empty, like those of IX.
SpecST == InitIX /\ [][NextST]_vars

(***************************************************************************)
(* ST: properties                                                          *)
(***************************************************************************)
\* A pending timeout or a pairTimers entry involves socket s.
HasTimerST(s) ==
    \/ MapHas(pairTimers, s)
    \/ \E t \in timeouts : t[1] = s \/ t[2] = s

(* C13: in ST escalation timers are created only for voice pairs: a pair
   whose two members both asked for mode video in their latest CONNECT never
   has a timer scheduled and its members are never sent ENABLE_VIDEO. *)
C13_NoTimerForVideoPairST ==
    \A a, b \in Sock :
        (MapGet(pairs, a) = b /\ lastMode[a] = "video" /\ lastMode[b] = "video") =>
            /\ ~HasTimerST(a) /\ ~HasTimerST(b)
            /\ SentTo(a, "ENABLE_VIDEO") = {} /\ SentTo(b, "ENABLE_VIDEO") = {}

\* The pair a-b stands before this step and not after it.
PairDissolvedST(a, b) ==
    /\ a # b
    /\ MapGet(pairs, a) = b
    /\ MapGet(pairs', a) # b

\* Every pending timeout belongs to the pair that scheduled it, which still
\* stands and has it registered under both members.
C14_TimerOfStandingPairST ==
    \A t \in timeouts :
        /\ MapGet(pairs, t[1]) = t[2]
        /\ MapHas(pairTimers, t[1]) /\ pairTimers[t[1]] = t
        /\ MapHas(pairTimers, t[2]) /\ pairTimers[t[2]] = t

\* A step that dissolves a pair cancels its timer and does not form the same
\* pair again; ENABLE_VIDEO is sent only by the callback of the timer of a
\* pair that stands at that instant, and only to its two members.
C14_EnableVideoStepST ==
    /\ \A a, b \in Sock :
          PairDissolvedST(a, b) =>
              /\ <<a, b>> \notin timeouts' /\ <<b, a>> \notin timeouts'
              /\ SentTo(a, "ENABLE_VIDEO")' = {} /\ SentTo(b, "ENABLE_VIDEO")' = {}
    /\ \A a, b \in Sock :
          (MapGet(pairs, a) = b /\ MapGet(pairs', a) = b) =>
              (SentTo(a, "DISCONNECTED")' = {} /\ SentTo(b, "DISCONNECTED")' = {})
    /\ \A s \in Sock :
          SentTo(s, "ENABLE_VIDEO")' # {} =>
              /\ event'.kind = "timer"
              /\ s \in {event'.ws, event'.ws2}
              /\ <<event'.ws, event'.ws2>> \in timeouts
              /\ MapGet(pairs, event'.ws) = event'.ws2
              /\ MapGet(pairs', event'.ws) = event'.ws2

(* C14: in ST, whose timer callback does not consult pairs, ENABLE_VIDEO is
   sent to a socket only when it is paired with the socket it was paired with
   when the timer was scheduled; a pair dissolved before the deadline never
   gets ENABLE_VIDEO from its timer, even if its members are paired again. *)
C14_CancelWinsST ==
    [][C14_TimerOfStandingPairST /\ C14_TimerOfStandingPairST'
         /\ C14_EnableVideoStepST]_vars

\* A pair with a live timer was dissolved by one member's CONNECT, which
\* paired that member with a third socket: only the new pair's timer is
\* pending.
C14_Witness ==
    \E a, b, c \in Sock :
        /\ IsFrame(event, "CONNECT", a)
        /\ SentTo(b, "DISCONNECTED") # {}
        /\ b # c /\ MapGet(pairs, a) = c
        /\ timeouts = {<<a, c>>}
        /\ ~MapHas(pairTimers, b)

(***************************************************************************)
(* MP: the timer fires                                                     *)
(***************************************************************************)
\* attemptToPair schedules a timer for the two distinct sockets of a match.
VoiceTimersMP == {t \in Sock \X Sock : t[1] # t[2]}

\* The timeout t is run if it stays pending: from some moment on it is
\* never cleared, and its delay elapses.  A timeout that is cleared again
\* and again before it is due, as when its pair is dissolved and formed
\* anew without end, need never run.
TimerFairMP(t) == <>[](t \in timeouts) => []<><<TimerMP(t)>>_vars

\* The event loop always returns from a handler, a process whose listener
\* threw does exit, and a timeout that stays pending is run.
SpecMPFair ==
    /\ InitMP /\ [][NextMP]_vars
    /\ WF_vars(Settle)
    /\ WF_vars(ExitMP)
    /\ \A t \in VoiceTimersMP : TimerFairMP(t)

\* The last handler has matched x with y in voice mode: x asked for a match,
\* by a CONNECT in voice mode or as the survivor requeued by a close or an
\* error, and y was waiting.
JustPairedVoiceMP(x, y) ==
    /\ x # y
    /\ MapGet(pairedConnections, x) = y
    /\ \E i \in SentTo(x, "PAIR_FOUND") : sent[i].payload = "initiator:true"
    /\ \E i \in SentTo(y, "PAIR_FOUND") : sent[i].payload = "initiator:false"
    /\ \/ IsFrame(event, "CONNECT", x) /\ NewMode(event.frame.mode) = "voice"
       \/ event.kind \in {"close", "error"}

\* The last handler has delivered ENABLE_VIDEO to x and to y.
EnableVideoDelivered(x, y) ==
    /\ \E i \in SentTo(x, "ENABLE_VIDEO") : sent[i].delivered
    /\ \E i \in SentTo(y, "ENABLE_VIDEO") : sent[i].delivered

\* The pair x-y no longer stands, or one of its sockets is no longer open.
DisturbedMP(x, y) ==
    \/ MapGet(pairedConnections, x) # y
    \/ readyState[x] # "OPEN"
    \/ readyState[y] # "OPEN"

(* C15: in MP, for a pair X,Y formed in voice mode, if neither member sends
   CONNECT or DISCONNECT, neither transport closes or errors and both stay
   open, then, the timer callback being run fairly, both X and Y eventually
   receive ENABLE_VIDEO. *)
C15_VoicePairGetsVideoMP ==
    \A t \in VoiceTimersMP :
        JustPairedVoiceMP(t[1], t[2])
            ~> (EnableVideoDelivered(t[1], t[2]) \/ DisturbedMP(t[1], t[2]))

\* The timer of a standing voice pair has fired with both sockets open.
C15_Witness ==
    \E x, y \in Sock :
        /\ event.kind = "timer" /\ event.ws = x /\ event.ws2 = y
        /\ MapGet(pairedConnections, x) = y
        /\ EnableVideoDelivered(x, y)
        /\ ~DisturbedMP(x, y)

(***************************************************************************)
(* MP: signalling relay, idempotence, cleanup                              *)
(***************************************************************************)
\* The positions in sent of the SIGNAL messages.
SignalsSent(log) == {i \in 1 .. Len(log) : log[i].type = "SIGNAL"}

\* X, paired with an open Y, sends SIGNAL: one SIGNAL is sent, to Y, with the
\* payload as X wrote it in the frame, and it is delivered.
C16_RelayStepMP ==
    \A x, y \in Sock :
        (IsFrame(event', "SIGNAL", x) /\ MapGet(pairedConnections, x) = y
           /\ readyState[y] = "OPEN") =>
            /\ Cardinality(SignalsSent(sent')) = 1
            /\ \A i \in SignalsSent(sent') :
                  sent'[i] = Msg(y, "SIGNAL", event'.frame.signal, TRUE)

\* A SIGNAL message goes to a socket only as the relay of the SIGNAL frame
\* that its current partner has just sent.
C16_OnlyRelayedMP ==
    \A i \in SignalsSent(sent') :
        LET y == sent'[i].to
            x == MapGet(pairedConnections, y)
        IN  /\ x # Undefined
            /\ MapGet(pairedConnections', y) = x
            /\ IsFrame(event', "SIGNAL", x)
            /\ sent'[i].payload = event'.frame.signal

(* C16: in MP, when X sends SIGNAL with payload p while paired with an open
   socket Y, exactly one SIGNAL message carrying the identical payload p is
   delivered to Y and to no other socket; and a SIGNAL message is delivered
   to a socket only as the relay of a SIGNAL just sent by its current
   partner. *)
C16_SignalRelayMP == [][C16_RelayStepMP /\ C16_OnlyRelayedMP]_vars

(***************************************************************************)
(* SQ: signalling without a partner                                        *)
(***************************************************************************)
\* An unpaired X sends SIGNAL: X is sent a STATUS and no SIGNAL goes out.
C17_UnpairedSignalStepSQ ==
    \A x \in Sock :
        (IsFrame(event', "SIGNAL", x) /\ ~PairedSQ(x)) =>
            /\ SentTo(x, "STATUS")' # {}
            /\ SignalsSent(sent') = {}

(* C17: in SQ, when a client that is not paired sends SIGNAL, a failure
   STATUS message is sent back to that client and nothing is relayed to any
   other socket. *)
C17_UnpairedSignalSQ == [][C17_UnpairedSignalStepSQ]_vars

\* The handlers that run the disconnect logic for socket x, and the readyState
\* of x under which each one runs.
DisconnectKinds == {"DISCONNECT", "error", "close"}

HandleMP(st, x, h) ==
    CASE h = "DISCONNECT" -> disconnectMP(st, x)
      [] h = "error" -> errorMP(st, x)
      [] h = "close" -> closeMP(st, x)

ReadyStateFor(rs, x, h) ==
    CASE h = "DISCONNECT" -> rs
      [] h = "error" -> [rs EXCEPT ![x] = "CLOSING"]
      [] h = "close" -> [rs EXCEPT ![x] = "CLOSED"]

\* h2 can be the next event of socket x after h1.
CanFollow(h1, h2) ==
    /\ h1 # "close"
    /\ h2 = "DISCONNECT" => h1 = "DISCONNECT"

\* The disconnect logic applied twice in a row to x, from an idle state:
\* the second application changes no registry and sends no DISCONNECTED.
C18_TwiceInARowMP ==
    \A x \in Sock : \A h1, h2 \in DisconnectKinds :
        (event = Idle /\ readyState[x] \in {"OPEN", "CLOSING"}
           /\ (h1 = "DISCONNECT" => readyState[x] = "OPEN")
           /\ CanFollow(h1, h2)) =>
            LET s1 == HandleMP(RegMP(ReadyStateFor(readyState, x, h1)), x, h1)
                s2 == HandleMP([s1 EXCEPT
                                  !.sent = << >>,
                                  !.readyState = ReadyStateFor(@, x, h2)], x, h2)
            IN  /\ s2.pendingUsers = s1.pendingUsers
                /\ s2.pairedConnections = s1.pairedConnections
                /\ s2.videoTimers = s1.videoTimers
                /\ s2.timeouts = s1.timeouts
                /\ \A i \in 1 .. Len(s2.sent) : s2.sent[i].type # "DISCONNECTED"

\* Socket x is in no queue, in no pair and has no timer.
CleanMP(x) == ~WaitingMP(x) /\ ~PairedMP(x) /\ NoTimerMP(x)

\* This step handles DISCONNECT, close or error for x.
DisconnectHandledMP(x) ==
    \/ IsFrame(event', "DISCONNECT", x)
    \/ event'.kind \in {"close", "error"} /\ event'.ws = x

\* The disconnect logic leaves x clean; x stays clean until the next pairing
\* attempt for it, its own CONNECT; and the disconnect logic handled for a
\* clean x changes no registry and sends no DISCONNECTED.
C18_SecondHandlingMP ==
    \A x \in Sock :
        /\ DisconnectHandledMP(x) => CleanMP(x)'
        /\ (CleanMP(x) /\ ~IsFrame(event', "CONNECT", x)) => CleanMP(x)'
        /\ (CleanMP(x) /\ DisconnectHandledMP(x)) =>
              /\ pendingUsers' = pendingUsers
              /\ pairedConnections' = pairedConnections
              /\ videoTimers' = videoTimers
              /\ \A i \in 1 .. Len(sent') : sent'[i].type # "DISCONNECTED"

(* C18: in MP the disconnect logic is idempotent: if DISCONNECT (or close) is
   handled twice for the same socket with no pairing of that socket in
   between, the second handling leaves pendingUsers, pairedConnections and
   videoTimers unchanged and sends no DISCONNECTED message to any socket. *)
C18_IdempotentDisconnectMP ==
    [][C18_TwiceInARowMP /\ C18_SecondHandlingMP]_vars

\* A voice pair x-y with a live timer: the first DISCONNECT of x notifies y and
\* dissolves the pair, the second one only answers x.
C18_Witness ==
    \E x, y \in Sock :
        /\ MapGet(pairedConnections, x) = y /\ MapHas(videoTimers, x)
        /\ readyState[x] = "OPEN" /\ readyState[y] = "OPEN"
        /\ LET s1 == disconnectMP(RegMP(readyState), x)
               s2 == disconnectMP([s1 EXCEPT !.sent = << >>], x)
           IN  /\ s1.pairedConnections = EmptyMap /\ s1.videoTimers = EmptyMap
               /\ \E i \in 1 .. Len(s1.sent) :
                      s1.sent[i] = Msg(y, "DISCONNECTED", "partner", TRUE)
               /\ s2.pairedConnections = s1.pairedConnections
               /\ s2.pendingUsers = s1.pendingUsers
               /\ s2.sent = <<Msg(x, "STATUS", "disconnected", TRUE)>>

(***************************************************************************)
(* SQ: matching order                                                      *)
(***************************************************************************)
\* p is the earliest entry of pendingUsers, the requester w aside, that is
\* open and unpaired.
EarliestEligibleSQ(p, w) ==
    \E i \in 1 .. Len(pendingUsers) :
        /\ pendingUsers[i] = p /\ p # w /\ EligibleSQ(p)
        /\ \A j \in 1 .. (i - 1) :
              pendingUsers[j] = w \/ ~EligibleSQ(pendingUsers[j])

\* A step that forms a pair links the requester with the earliest eligible
\* entry of pendingUsers and takes that entry out of pendingUsers.
C19_FifoStepSQ ==
    NewlyPairedSQ # {} =>
        \E w, p \in Sock :
            /\ w # p /\ NewlyPairedSQ = {w, p}
            /\ w = RequesterSQ
            /\ pairedConnections'[w] = p
            /\ EarliestEligibleSQ(p, w)
            /\ ~PendingSQ(p)'
            /\ \A q \in Sock \ {w, p} : PendingSQ(q) <=> PendingSQ(q)'

(* C19: in SQ matching is FIFO: whenever a pair is formed, the waiting socket
   chosen as partner is the earliest-enqueued entry of pendingUsers that is
   still open and unpaired; a later eligible socket is never matched while
   an earlier eligible one waits, and the chosen entry is removed from
   pendingUsers in the same step. *)
C19_FifoMatchingSQ == [][C19_FifoStepSQ]_vars

\* A CONNECT was matched with a waiting socket that had queued behind a socket
\* whose transport has since gone down: the stale entry is still queued.
C19_Witness ==
    \E w, p, q \in Sock :
        /\ IsFrame(event, "CONNECT", w)
        /\ w # p /\ MapGet(pairedConnections, w) = p /\ ~PendingSQ(p)
        /\ q \notin {w, p} /\ PendingSQ(q) /\ readyState[q] = "CLOSING"

(***************************************************************************)
(* MP: nothing is left of a closed socket                                  *)
(***************************************************************************)
(* C20: in MP no registry entry leaks: once the close event of a socket has
   been handled, the socket is in neither pendingUsers queue, is neither a
   key nor a value of pairedConnections and has no videoTimers entry, in
   that state and in every later state. *)
C20_NoLeakAfterCloseMP ==
    \A s \in Sock :
        readyState[s] = "CLOSED" =>
            /\ ~WaitingMP(s)
            /\ ~PairedMP(s)
            /\ \A a \in DOMAIN pairedConnections : pairedConnections[a] # s
            /\ NoTimerMP(s)

\* A paired socket has closed: its partner was notified and requeued, and a
\* socket that closed earlier is still in no registry.
C20_Witness ==
    \E s, y, r \in Sock :
        /\ event.kind = "close" /\ event.ws = s /\ readyState[s] = "CLOSED"
        /\ SentTo(y, "DISCONNECTED") # {} /\ QueuedMP(y, "voice")
        /\ r # s /\ readyState[r] = "CLOSED"

(***************************************************************************)
(* AP: the auto-pairing server, src/unnamed/part_001 lines 214-391         *)
(***************************************************************************)
\* waitingClients is an array of sockets here.
RegAP(rs) ==
    [readyState |-> rs, waitingClients |-> waitingClients, pairs |-> pairs,
     sent |-> << >>, thrown |-> FALSE]

\* Each call shifts one entry off waitingClients; an entry that is not open or
\* is already paired is dropped and the call is made again.
RECURSIVE attemptToPairAP(_, _)
attemptToPairAP(st, ws) ==
    IF Len(st.waitingClients) > 0
    THEN LET partner == Head(st.waitingClients)
             s0 == [st EXCEPT !.waitingClients = Tail(@)]
         IN  IF s0.readyState[partner] = "OPEN" /\ ~MapHas(s0.pairs, partner)
             THEN LET s1 == [s0 EXCEPT
                               !.pairs = MapSet(MapSet(@, ws, partner), partner, ws)]
                      s2 == sendMessageToClientIX(s1, ws, "PAIR_FOUND", "initiator:true")
                  IN  sendMessageToClientIX(s2, partner, "PAIR_FOUND", "initiator:false")
             ELSE attemptToPairAP(s0, ws)
    ELSE sendMessageToClientIX(
             [st EXCEPT !.waitingClients = Append(@, ws)], ws, "STATUS", "waiting")

disconnectPairAP(st, ws) ==
    LET partner == MapGet(st.pairs, ws)
    IN  IF partner # Undefined
        THEN LET a == sendMessageToClientIX(st, partner, "DISCONNECTED", "partner")
                 b == [a EXCEPT !.pairs = MapDelete(MapDelete(@, ws), partner)]
             IN  attemptToPairAP(b, partner)
        ELSE st

cleanupClientAP(st, ws) ==
    LET index == FindSock(st.waitingClients, ws)
        s1 == IF index # 0
              THEN [st EXCEPT !.waitingClients = Splice(@, index)]
              ELSE st
    IN  disconnectPairAP(s1, ws)

\* wss.on('connection'): the new socket is matched or queued at once.
connectionAP(st, ws) == attemptToPairAP(st, ws)

\* case 'SIGNAL'
signalAP(st, ws, signal) ==
    LET partner == MapGet(st.pairs, ws)
    IN  IF partner # Undefined
        THEN sendMessageToClientIX(st, partner, "SIGNAL", signal)
        ELSE sendMessageToClientIX(st, ws, "STATUS", "not paired")

\* case 'DISCONNECT'
disconnectAP(st, ws) == attemptToPairAP(disconnectPairAP(st, ws), ws)

\* case 'CONNECT'
connectAP(st, ws) == attemptToPairAP(cleanupClientAP(st, ws), ws)

\* ws.on('message')
messageAP(st, ws, frame) ==
    IF ~frame.valid THEN st
    ELSE CASE frame.type = "SIGNAL" -> signalAP(st, ws, JsonParse(frame.signal))
           [] frame.type = "DISCONNECT" -> disconnectAP(st, ws)
           [] frame.type = "CONNECT" -> connectAP(st, ws)
           [] OTHER -> st

ConnectionAP(s) ==
    /\ event = Idle
    /\ readyState[s] = "CONNECTING"
    /\ \A r \in Sock : r < s => readyState[r] # "CONNECTING"
    /\ CommitIX(connectionAP(RegAP([readyState EXCEPT ![s] = "OPEN"]), s))
    /\ event' = Ev("connection", s, NoFrame, Undefined)

MessageAP(s) ==
    /\ event = Idle
    /\ readyState[s] = "OPEN"
    /\ \E frame \in Frames :
          IF Throws(frame)
          THEN ListenerThrows(s, frame)
          ELSE LET st == messageAP(RegAP(readyState), s, frame)
               IN
               /\ CommitIX(st)
               /\ event' = Ev(IF st.thrown THEN "uncaught" ELSE "message",
                              s, frame, Undefined)

ErrorAP(s) ==
    /\ event = Idle
    /\ readyState[s] \in {"OPEN", "CLOSING"}
    /\ CommitIX(cleanupClientAP(RegAP([readyState EXCEPT ![s] = "CLOSING"]), s))
    /\ event' = Ev("error", s, NoFrame, Undefined)

CloseAP(s) ==
    /\ event = Idle
    /\ readyState[s] \in {"OPEN", "CLOSING"}
    /\ CommitIX(cleanupClientAP(RegAP([readyState EXCEPT ![s] = "CLOSED"]), s))
    /\ event' = Ev("close", s, NoFrame, Undefined)

NextAP ==
    \/ \E s \in Sock : ConnectionAP(s)
    \/ \E s \in Sock : MessageAP(s)
    \/ \E s \in Sock : TransportDown(s)
    \/ \E s \in Sock : ErrorAP(s)
    \/ \E s \in Sock : CloseAP(s)
    \/ Settle
    \/ ExitIX

\* The registries of AP start empty, like those of IX.
SpecAP == InitIX /\ [][NextAP]_vars

(***************************************************************************)
(* AP: properties                                                          *)
(***************************************************************************)
(* C21: in AP, once the close event of a socket has been handled by
   cleanupClient, that socket is neither in waitingClients nor a key or a
   value of pairs, so no surviving client is left paired with a socket whose
   close has already been processed. *)
C21_NothingLeftAfterCloseAP ==
    \A s \in Sock :
        readyState[s] = "CLOSED" =>
            /\ FindSock(waitingClients, s) = 0
            /\ ~MapHas(pairs, s)
            /\ \A a \in DOMAIN pairs : pairs[a] # s

(***************************************************************************)
(* P0: only clients that asked are paired                                  *)
(***************************************************************************)
(* C22: in P0 a socket is linked into a pair only if the most recent CONNECT
   or DISCONNECT message it sent was CONNECT; a socket that never sent
   CONNECT, or whose last such message was DISCONNECT, is never paired and
   never receives PAIR_FOUND. *)
C22_PairedOnlyAfterConnectP0 ==
    \A s \in Sock :
        lastRequest[s] # "CONNECT" =>
            /\ ~MapHas(pairs, s)
            /\ \A a \in DOMAIN pairs : pairs[a] # s
            /\ SentTo(s, "PAIR_FOUND") = {}

\* Two sockets are matched by a CONNECT while a third, open socket whose last
\* request was DISCONNECT is left alone.
C22_Witness ==
    \E a, b, c \in Sock :
        /\ IsFrame(event, "CONNECT", b) /\ a # b /\ MapGet(pairs, b) = a
        /\ SentTo(a, "PAIR_FOUND") # {}
        /\ c \notin {a, b} /\ readyState[c] = "OPEN"
        /\ lastRequest[c] = "DISCONNECT"
        /\ ~MapHas(pairs, c) /\ SentTo(c, "PAIR_FOUND") = {}

(***************************************************************************)
(* MP: frames, sends, isolation, modes                                     *)
(***************************************************************************)
\* The frame is text that JSON.parse rejects, or its type is none of the three
\* the switch has a case for; the text null has no type at all.
DroppedFrame(frame) ==
    ~frame.valid \/ frame.type \notin {"SIGNAL", "DISCONNECT", "CONNECT"}

\* The step is part of the handling of a frame: the listener returns or
\* throws, and a process whose listener threw exits.
FrameHandlingKinds == {"message", "uncaught", "exit"}

\* The step changes none of the registries of MP.
RegistriesUnchangedMP ==
    /\ pendingUsers' = pendingUsers
    /\ pairedConnections' = pairedConnections
    /\ videoTimers' = videoTimers
    /\ timeouts' = timeouts

(* C23: in MP an inbound frame that is not valid JSON, or whose type is none
   of SIGNAL, DISCONNECT and CONNECT, is dropped: no message is sent to any
   socket and pendingUsers, pairedConnections and videoTimers are left
   unchanged. *)
C23_MalformedFrameDroppedMP ==
    [][(event'.kind \in FrameHandlingKinds /\ DroppedFrame(event'.frame)) =>
          (sent' = << >> /\ RegistriesUnchangedMP)]_vars

(***************************************************************************)
(* SQ: the queue holds each socket once, and no paired socket              *)
(***************************************************************************)
(* C24: in SQ no socket appears more than once in pendingUsers, and no
   socket that is in pendingUsers is in pairedConnections. *)
C24_QueueSoundSQ ==
    /\ \A i, j \in 1 .. Len(pendingUsers) :
           pendingUsers[i] = pendingUsers[j] => i = j
    /\ \A i \in 1 .. Len(pendingUsers) : ~PairedSQ(pendingUsers[i])

\* The close of a paired socket has pushed its survivor behind a socket that
\* was already queued but is no longer open, while a pair exists.
C24_Witness ==
    \E x, y, z \in Sock :
        /\ event.kind = "close" /\ event.ws = x
        /\ Len(pendingUsers) >= 2
        /\ pendingUsers[Len(pendingUsers)] = y /\ y # x
        /\ SentTo(y, "DISCONNECTED") # {}
        /\ ~PairedSQ(y)

(***************************************************************************)
(* MP: who initiates                                                       *)
(***************************************************************************)
\* w waits in a queue as a client attemptToPair would take, and r is another
\* open socket: a CONNECT of r can pair the two.
PairingPossibleMP(r, w) ==
    /\ event = Idle
    /\ r # w
    /\ readyState[r] = "OPEN" /\ readyState[w] = "OPEN"
    /\ WaitingMP(w) /\ ~PairedMP(w)

\* A message of r pairs it with the waiting w and w is the initiator.
WaiterInitiatesMP(r, w) ==
    /\ MessageMP(r)
    /\ MapGet(pairedConnections', r) = w
    /\ \E i \in 1 .. Len(sent') :
          /\ sent'[i].to = w
          /\ sent'[i].type = "PAIR_FOUND"
          /\ sent'[i].payload = "initiator:true"

\* A message of r pairs it with the waiting w and r is the initiator.
RequesterInitiatesMP(r, w) ==
    /\ MessageMP(r)
    /\ MapGet(pairedConnections', r) = w
    /\ \E i \in 1 .. Len(sent') :
          /\ sent'[i].to = r
          /\ sent'[i].type = "PAIR_FOUND"
          /\ sent'[i].payload = "initiator:true"

(* C25: in MP the initiator of a new pair is not fixed by arrival order:
   wherever a requesting client can be paired with a waiting client, both
   outcomes are possible, the requester receiving PAIR_FOUND initiator:true
   or the waiting client receiving it. *)
C25_EitherSideMayInitiateMP ==
    \A r, w \in Sock :
        PairingPossibleMP(r, w) =>
            /\ ENABLED RequesterInitiatesMP(r, w)
            /\ ENABLED WaiterInitiatesMP(r, w)

(***************************************************************************)
(* MP: sends to sockets that are not open                                  *)
(***************************************************************************)
\* x, paired with y under a live timer, sends DISCONNECT while y is not open.
DisconnectWithDeadPartnerMP(x, y) ==
    /\ event = Idle
    /\ MapGet(pairedConnections, x) = y
    /\ readyState[y] # "OPEN"
    /\ RegisteredMP(videoTimers, x, <<x, y>>) \/ RegisteredMP(videoTimers, x, <<y, x>>)
    /\ event'.kind = "message" /\ event'.ws = x
    /\ event'.frame.valid /\ event'.frame.type = "DISCONNECT"

\* Every send of the step to a socket that is not open was dropped, and the
\* sockets' readyState is as the transport left it.
DeadSendsDroppedMP ==
    /\ \A i \in 1 .. Len(sent') :
          readyState'[sent'[i].to] # "OPEN" => ~sent'[i].delivered
    /\ event'.kind = "message" => readyState' = readyState

(* C26: in MP a send to a socket that is not open is silently dropped:
   nothing is delivered to it, the handler leaves no error state and its
   registry updates still complete.  When X sends DISCONNECT while its
   partner Y is no longer open, the pair is still unlinked and its timer
   cancelled. *)
C26_DeadSendDroppedMP ==
    [][/\ DeadSendsDroppedMP
       /\ \A x, y \in Sock :
             DisconnectWithDeadPartnerMP(x, y) =>
                 /\ SentTo(y, "DISCONNECTED")' # {}
                 /\ ~MapHas(pairedConnections', x) /\ ~MapHas(pairedConnections', y)
                 /\ ~MapHas(videoTimers', x) /\ ~MapHas(videoTimers', y)
                 /\ timeouts' \cap {<<x, y>>, <<y, x>>} = {}]_vars

\* X has sent DISCONNECT, its partner Y is not open: the DISCONNECTED for Y
\* was dropped, the pair and its timer are gone.
C26_Witness ==
    \E x, y \in Sock :
        /\ event.kind = "message" /\ event.ws = x
        /\ event.frame.valid /\ event.frame.type = "DISCONNECT"
        /\ readyState[y] = "CLOSING"
        /\ \E i \in SentTo(y, "DISCONNECTED") : ~sent[i].delivered
        /\ ~PairedMP(x) /\ ~PairedMP(y)
        /\ timeouts = {}

(***************************************************************************)
(* SQ: the order of a requeue                                              *)
(***************************************************************************)
\* The close of x is handled while its partner y is open: y is requeued.
CloseRequeuesSQ(x, y) ==
    /\ event = Idle
    /\ MapGet(pairedConnections, x) = y
    /\ readyState[y] = "OPEN"
    /\ event'.kind = "close" /\ event'.ws = x

\* The messages of the requeue to y: PAIR_FOUND or the searching STATUS.
RequeueNoticesSQ(y) ==
    {j \in 1 .. Len(sent) :
        sent[j].to = y /\ sent[j].type \in {"PAIR_FOUND", "STATUS"}}

(* C27: in SQ, when the close of X requeues its open partner Y, Y is sent
   DISCONNECTED before the PAIR_FOUND or searching STATUS of the requeue,
   and the old pair's timer is cancelled before a timer for Y's new pair is
   scheduled: the new pair's timer is not cancelled by the same handler. *)
C27_RequeueOrderSQ ==
    [][\A x, y \in Sock :
          CloseRequeuesSQ(x, y) =>
              /\ RequeueNoticesSQ(y)' # {}
              /\ \E i \in SentTo(y, "DISCONNECTED")' :
                    \A j \in RequeueNoticesSQ(y)' : i < j
              /\ ~MapHas(videoTimers', x)
              /\ timeouts' \cap {<<x, y>>, <<y, x>>} = {}
              /\ PairedSQ(y)' =>
                    /\ RegisteredMP(videoTimers', y, <<y, pairedConnections'[y]>>)
                    /\ <<y, pairedConnections'[y]>> \in timeouts']_vars

\* The close of X has been handled: Y got DISCONNECTED, then PAIR_FOUND with
\* a waiting socket, and the new pair's timer is pending.
C27_Witness ==
    \E x, y, w \in Sock :
        /\ event.kind = "close" /\ event.ws = x
        /\ SentTo(y, "DISCONNECTED") # {} /\ SentTo(y, "PAIR_FOUND") # {}
        /\ MapGet(pairedConnections, y) = w
        /\ timeouts = {<<y, w>>}

(***************************************************************************)
(* MP: an event touches only the sockets it concerns                       *)
(***************************************************************************)
\* The sockets an event of c may touch: c, its partner when the event
\* starts, and the waiting socket the handler matches.
ConcernedMP(c) ==
    {c} \cup {s \in Sock : MapGet(pairedConnections, c) = s}
        \cup {s \in Sock : WaitingMP(s) /\ SentTo(s, "PAIR_FOUND")' # {}}

\* The pairing and the timer of s are what they were.
SamePairingAndTimerMP(s) ==
    /\ MapGet(pairedConnections', s) = MapGet(pairedConnections, s)
    /\ MapHas(videoTimers', s) = MapHas(videoTimers, s)
    /\ MapHas(videoTimers, s) =>
          /\ videoTimers'[s] = videoTimers[s]
          /\ (videoTimers[s] \in timeouts') = (videoTimers[s] \in timeouts)

\* s is in the same queues as before.
SameQueuesMP(s) ==
    \A m \in {"voice", "video"} : QueuedMP(s, m)' = QueuedMP(s, m)

(* C28: in MP handling a single event from a client C (CONNECT, DISCONNECT,
   SIGNAL, a malformed frame, close or error) leaves unchanged the pairing
   and the timer of every socket other than C, C's partner at the start of
   the event and the waiting socket newly matched, and leaves unchanged the
   queue membership of every other open socket. *)
C28_OthersUntouchedMP ==
    [][event'.kind \in FrameHandlingKinds \cup {"close", "error"} =>
          \A s \in Sock \ ConcernedMP(event'.ws) :
              /\ SamePairingAndTimerMP(s)
              /\ readyState[s] = "OPEN" => SameQueuesMP(s)]_vars

(***************************************************************************)
(* MP: modes                                                               *)
(***************************************************************************)
(* C29: in MP modes are never mixed: the two members of a pair have the
   same mode in their most recent CONNECT, so a client that asked for video
   is never paired with one that asked for voice, and never receives
   ENABLE_VIDEO. *)
C29_ModesNeverMixedMP ==
    /\ \A a \in Sock :
          MapHas(pairedConnections, a) =>
              lastMode[a] = lastMode[pairedConnections[a]]
    /\ \A s \in Sock :
          lastMode[s] = "video" => SentTo(s, "ENABLE_VIDEO") = {}

(***************************************************************************)
(* MP: both members of a new pair are open                                 *)
(***************************************************************************)
(* C30: in MP, at the moment a pair is formed both of its members have
   readyState OPEN, whether the pairing comes from a CONNECT message or
   from the requeue of a survivor after its partner's close or error, a
   socket being able to stop being open before its close is handled. *)
C30_PairedWhileOpenMP ==
    [][\A a, b \in Sock :
          PairFormedMP(a, b) =>
              readyState'[a] = "OPEN" /\ readyState'[b] = "OPEN"]_vars

(***************************************************************************)
(* MP: how a waiting client leaves its queue                               *)
(***************************************************************************)
\* s is in queue m before the step and not after it.
LeavesQueueMP(s, m) == QueuedMP(s, m) /\ ~QueuedMP(s, m)'

\* The step handles a frame of the given type sent by s.
OwnFrameMP(s, type) ==
    /\ event'.kind = "message" /\ event'.ws = s
    /\ event'.frame.valid /\ event'.frame.type = type

\* The causes the claim lists: s is matched, s sends CONNECT or DISCONNECT,
\* the transport of s closes or errors, or s is no longer open.
ListedCauseMP(s) ==
    \/ SentTo(s, "PAIR_FOUND")' # {}
    \/ OwnFrameMP(s, "CONNECT") \/ OwnFrameMP(s, "DISCONNECT")
    \/ event'.kind \in {"close", "error"} /\ event'.ws = s
    \/ readyState'[s] # "OPEN"

\* The statement as claimed: the listed causes are the only ones, and a
\* SIGNAL of a waiting client leaves it queued.
C31_LeavesQueueOnlyByMP ==
    [][\A s \in Sock : \A m \in {"voice", "video"} :
          /\ LeavesQueueMP(s, m) => ListedCauseMP(s)
          /\ (QueuedMP(s, m) /\ OwnFrameMP(s, "SIGNAL")) => QueuedMP(s, m)']_vars

(* C31 (amended): in MP a client waiting in a pendingUsers queue leaves the
   queue only by being matched, by its own CONNECT or DISCONNECT, by its own
   SIGNAL sent while it has no partner, or by its transport closing,
   erroring or no longer being open; a SIGNAL sent by a waiting client
   without a partner removes it from its queue and is answered with a
   STATUS. *)
C31_LeavesQueueAlsoBySignalMP ==
    [][\A s \in Sock : \A m \in {"voice", "video"} :
          /\ LeavesQueueMP(s, m) =>
                \/ ListedCauseMP(s)
                \/ OwnFrameMP(s, "SIGNAL") /\ ~PairedMP(s)
          /\ (QueuedMP(s, m) /\ ~PairedMP(s) /\ OwnFrameMP(s, "SIGNAL")) =>
                /\ ~QueuedMP(s, m)'
                /\ SentTo(s, "STATUS")' # {}]_vars

\* A waiting client has sent SIGNAL: it got a STATUS and waits no more,
\* while another client, waiting in the other queue, still waits.
C31_Witness ==
    \E s, o \in Sock :
        /\ event.kind = "message" /\ event.ws = s
        /\ event.frame.valid /\ event.frame.type = "SIGNAL"
        /\ lastMode[s] \in {"voice", "video"}
        /\ SentTo(s, "STATUS") # {}
        /\ ~WaitingMP(s) /\ ~PairedMP(s)
        /\ o # s /\ WaitingMP(o)

(***************************************************************************)
(* MP: work conservation                                                   *)
(***************************************************************************)
(* C32: in MP, after every event handler each of pendingUsers.voice and
   pendingUsers.video holds at most one entry, so two open clients that
   requested the same mode are never both left waiting. *)
C32_AtMostOneWaitingMP ==
    \A m \in {"voice", "video"} :
        /\ Len(pendingUsers[m]) <= 1
        /\ \A a, b \in Sock :
              (/\ QueuedMP(a, m) /\ QueuedMP(b, m)
               /\ readyState[a] = "OPEN" /\ readyState[b] = "OPEN") => a = b

\* A client has sent CONNECT for voice while the only voice entry was a
\* socket that is no longer open: the newcomer waits alone in the voice
\* queue, and another client waits alone in the video queue.
C32_Witness ==
    \E x, d, v \in Sock :
        /\ event.kind = "message" /\ event.ws = x
        /\ event.frame.valid /\ event.frame.type = "CONNECT"
        /\ readyState[d] = "CLOSING" /\ lastMode[d] = "voice" /\ ~PairedMP(d)
        /\ Len(pendingUsers["voice"]) = 1 /\ QueuedMP(x, "voice")
        /\ Len(pendingUsers["video"]) = 1 /\ QueuedMP(v, "video")

=============================================================================
